---------------------------- MODULE Spec2Model ----------------------------
(***************************************************************************)
(* Motion-control firmware of the mecanum robot (Arduino sketches).        *)
(*                                                                         *)
(* Sketches modelled:                                                      *)
(*   Advanced  src/unnamed/part_001 (= basic-control/mecanum-advanced-     *)
(*             controller.ino): IMU balance/heading controller             *)
(*   Extended  src/unnamed/part_005: s1,s2,s3,s4 / TEST controller         *)
(*   Line      jetbot-controllers/line-following/mecanum-line-follower-    *)
(*             advanced.ino: line follower with forward/backward/stop      *)
(*                                                                         *)
(* Conventions.  A byte is a one-character string; a command line, the     *)
(* command buffer and the serial queues are sequences of bytes.  One       *)
(* action is one run of a handler (one loop() iteration, setup(), one      *)
(* delivery of bytes by the UART).  Floating-point angles are kept in      *)
(* whole degrees, times in milliseconds, PID integrals in degree-ms and    *)
(* PID corrections in thousandths of a PWM count; a float division is      *)
(* rounded towards zero.  A division by dt = 0 yields a non-finite float,  *)
(* and the conversion of a non-finite or out-of-range float to int16_t is  *)
(* undefined: the model then draws the int16_t from UndefinedInt16.        *)
(***************************************************************************)
EXTENDS Integers, Sequences, FiniteSets, TLC

VARIABLES
  pc,                    \* "wait" in setup's wait for the port, "boot" in the rest of setup(),
                         \* "run" in loop(), "halt" in setup's while(1)
  serialOpen,            \* what "Serial" tests: the host has opened the port
  pitch,                 \* filtered pitch angle, degrees
  yaw,                   \* integrated yaw angle, degrees
  target_heading,        \* desired heading, degrees
  lastPitchError,        \* previous balance error, degrees
  balance_integral,      \* degree-ms
  balance_correction,    \* [finite, milli]
  heading_integral,      \* degree-ms
  heading_correction,    \* [finite, milli]
  balancingEnabled,
  headingControlEnabled,
  baseSpeeds,            \* int16_t[4] (Advanced)
  cmdBuffer,             \* the first cmdIndex bytes of cmdBuffer
  motorDir,              \* level last written to each DIR pin (TRUE = HIGH)
  motorPwm,              \* duty last written to each PWM pin
  lastExit,              \* how lastTime was last set: "setup", or a loop() iteration that ended in
                         \* its "delay" or at the tip-over "return"
  rx,                    \* the UART receive queue (Serial.available / Serial.read)
  wire,                  \* bytes the host has sent that the UART has not yet received
  out,                   \* status lines printed by the last action
  dispatched,            \* lines handed to the command dispatcher by the last action
  direction,             \* Line: 1 forward, -1 backward, 0 stop
  leftValues,            \* Line: the last FILTER_SIZE left sensor readings
  centerValues,
  rightValues,
  filterIndex,           \* Line: next slot of the filter buffers, from 0
  previousError,         \* Line: hundredths of a position unit
  integral,              \* Line: hundredths of a position unit
  yawAngle,              \* Drift: integrated yaw, thousandths of a degree
  baseMotorSpeeds,       \* Drift: int16_t[4]
  pidController,         \* Drift: [integral (millidegree-ms), lastError (millidegrees)]
  state,                 \* Drift: [mpuInitialized, straightDriveActive]
  testRuns,              \* Extended: the motor runs of executeTest() in the last action,
                         \* each [motorIndex, speed, duration (ms the delay() lasted)]
  readings,              \* Position: the three smoothed readings handed to calculatePosition()
  linePosition,          \* Position: the value it returned, in hundredths; -1 before the call
  isSerialConnected,     \* Dashboard: the script's copy of the serial status
  socketConnected,       \* Dashboard: socket.connected
  lastGamepadCommandKey, \* Dashboard: JSON of the last command sent for the gamepad, or "null"
  lastKeyboardCommandKey,\* Dashboard: likewise for the keyboard and the buttons
  gamepad,               \* Dashboard: a gamepad is in use
  keysPressed,           \* Dashboard: the movement keys held down
  controlsEnabled,       \* Dashboard: the buttons other than stop are not disabled
  handled                \* Dashboard: the event handled last, the payloads its handler gave
                         \* to socket.emit, the payload emitted most recently, and whether
                         \* the serial link was reported Connected since the socket was up

vars == <<pc, serialOpen, pitch, yaw, target_heading, lastPitchError, balance_integral,
          balance_correction, heading_integral, heading_correction,
          balancingEnabled, headingControlEnabled, baseSpeeds, cmdBuffer,
          motorDir, motorPwm, lastExit, rx, wire, out, dispatched, direction,
          leftValues, centerValues, rightValues, filterIndex, previousError,
          integral, yawAngle, baseMotorSpeeds, pidController, state, testRuns, readings, linePosition,
          isSerialConnected, socketConnected, lastGamepadCommandKey,
          lastKeyboardCommandKey, gamepad, keysPressed, controlsEnabled, handled>>

\* the globals of the line follower other than its command buffer and motors
lineVars == <<direction, leftValues, centerValues, rightValues, filterIndex,
              previousError, integral>>

\* the globals of the drift controller other than its command buffer and motors
driftVars == <<yawAngle, baseMotorSpeeds, pidController, state>>
fnVars == <<readings, linePosition>>
dashVars == <<isSerialConnected, socketConnected, lastGamepadCommandKey,
              lastKeyboardCommandKey, gamepad, keysPressed, controlsEnabled, handled>>

\* every variable of the sketches
sketchVarsButPc == <<serialOpen, pitch, yaw, target_heading, lastPitchError,
                     balance_integral, balance_correction, heading_integral,
                     heading_correction, balancingEnabled, headingControlEnabled,
                     baseSpeeds, cmdBuffer, motorDir, motorPwm, lastExit, rx, wire, out,
                     dispatched, lineVars, driftVars, testRuns>>
sketchVars == <<pc, sketchVarsButPc>>

---------------------------------------------------------------------------
(* Program constants *)

CMD_BUFFER_SIZE == 64
PWM_MAX == 255
NUM_MOTORS == 4
FILTER_SIZE == 5
INTEGRAL_LIMIT == 100
UNIFORM_THRESHOLD == 100
SET_POINT == 500
BASE_SPEED == 100
\* line follower PID gains, in tenths
Kp == 10
Ki == 0
Kd == 5
TIP_OVER_THRESHOLD == 30
\* ALPHA = 0.98, in percent
ALPHA == 98
\* dt_imu = 0.01 s, in milliseconds
dt_imu == 10
\* PID gains, in thousandths
Kp_balance == 20000
Ki_balance == 500
Kd_balance == 100
Kp_heading == 2000
Ki_heading == 100
Kd_heading == 50

(* Bounds of the model *)

\* largest PID integrals (degree-ms) from which a further iteration is explored
MaxBalanceIntegral == 500
MaxHeadingIntegral == 2000
\* milliseconds between setup() and the first loop(), after an early return,
\* and after an iteration that ended in delay(10)
DtFirst == 0
DtAfterReturn == 2
DtAfterDelay == 10
\* filtered pitch (degrees) from which the falling robot is taken to lie still
LyingPitch == 35
\* bytes the UART receive queue holds
RxCapacity == 63

---------------------------------------------------------------------------
(* Integers of the C program *)

Abs(n) == IF n < 0 THEN -n ELSE n

\* C division of a float result kept as an integer: rounds towards zero
TruncDiv(a, b) == IF a >= 0 THEN a \div b ELSE -((-a) \div b)

InInt16(n) == n >= -32768 /\ n <= 32767

\* two's-complement wrap of an integer to int16_t
Wrap16(n) == ((n + 32768) % 65536) - 32768

\* what an undefined float -> int16_t conversion may produce
UndefinedInt16 == {-32768, -1, 0, 32767}

constrain(x, lo, hi) == IF x < lo THEN lo ELSE IF x > hi THEN hi ELSE x

Min2(a, b) == IF a < b THEN a ELSE b

Motors == 1..NUM_MOTORS

\* the element of a one-element set
Only(S) == CHOOSE x \in S : TRUE

Zeros == [i \in Motors |-> 0]

---------------------------------------------------------------------------
(* Bytes and C strings *)

LF == "\n"
CR == "\r"
\* backspace (8) and delete (127)
BS == "BS"
DEL == "DEL"

Digit ==
  [c \in {"0","1","2","3","4","5","6","7","8","9"} |->
     CASE c = "0" -> 0 [] c = "1" -> 1 [] c = "2" -> 2 [] c = "3" -> 3
       [] c = "4" -> 4 [] c = "5" -> 5 [] c = "6" -> 6 [] c = "7" -> 7
       [] c = "8" -> 8 [] c = "9" -> 9]

IsDigit(c) == c \in DOMAIN Digit

IsSpace(c) == c \in {" ", "\t"}

Lower == <<"a","b","c","d","e","f","g","h","i","j","k","l","m",
           "n","o","p","q","r","s","t","u","v","w","x","y","z">>
Upper == <<"A","B","C","D","E","F","G","H","I","J","K","L","M",
           "N","O","P","Q","R","S","T","U","V","W","X","Y","Z">>

UpperOf ==
  [c \in {Lower[i] : i \in DOMAIN Lower} |->
     Upper[CHOOSE i \in DOMAIN Lower : Lower[i] = c]]

toupper(c) == IF c \in DOMAIN UpperOf THEN UpperOf[c] ELSE c

\* strcasecmp(a, b) == 0
strcasecmp0(a, b) ==
  /\ Len(a) = Len(b)
  /\ \A i \in DOMAIN a : toupper(a[i]) = toupper(b[i])

\* strncmp(a, b, n) == 0 for a string b of n bytes
strncmp0(a, b) ==
  /\ Len(a) >= Len(b)
  /\ \A i \in DOMAIN b : a[i] = b[i]

\* strncpy(dst, s, n) followed by dst[n] = 0: the first n bytes of s at most
strncpy(s, n) == SubSeq(s, 1, IF Len(s) < n THEN Len(s) ELSE n)

\* the successive results of strtok(buf, ","), strtok(NULL, ","), ...:
\* the maximal non-empty runs of bytes other than the delimiter
RECURSIVE strtok(_, _, _)
strtok(s, i, cur) ==
  IF i > Len(s)
    THEN (IF cur = <<>> THEN <<>> ELSE <<cur>>)
    ELSE IF s[i] = ","
      THEN (IF cur = <<>> THEN <<>> ELSE <<cur>>) \o strtok(s, i + 1, <<>>)
      ELSE strtok(s, i + 1, Append(cur, s[i]))

Tokens(s) == strtok(s, 1, <<>>)

\* the value of the longest run of digits of s starting at i
RECURSIVE DigitRun(_, _, _)
DigitRun(s, i, acc) ==
  IF i <= Len(s) /\ IsDigit(s[i])
    THEN DigitRun(s, i + 1, 10 * acc + Digit[s[i]])
    ELSE [val |-> acc, end |-> i]

RECURSIVE SkipSpace(_, _)
SkipSpace(s, i) == IF i <= Len(s) /\ IsSpace(s[i]) THEN SkipSpace(s, i + 1) ELSE i

\* strtol(s, &endptr, 10): value, and the index endptr points at (1 = s itself,
\* Len(s) + 1 = the terminating NUL)
strtol(s) ==
  LET i0 == SkipSpace(s, 1)
      signed == i0 <= Len(s) /\ s[i0] \in {"+", "-"}
      i1 == IF signed THEN i0 + 1 ELSE i0
      run == DigitRun(s, i1, 0)
  IN IF run.end = i1
       THEN [val |-> 0, end |-> 1]
       ELSE [val |-> IF signed /\ s[i0] = "-" THEN -run.val ELSE run.val,
             end |-> run.end]

\* atoi(s) stored in an int16_t: no check of the digits consumed, no range check
atoi(s) == Wrap16(strtol(s).val)

\* atof(s), for the whole-degree headings the model sends
atof(s) == strtol(s).val

---------------------------------------------------------------------------
(* Lines the host sends *)

Str4(a, b, c, d) == <<a, b, c, d>>

kwMOVE == <<"M","O","V","E">>
kwSTOP == <<"S","T","O","P">>
kwBALANCE == <<"B","A","L","A","N","C","E">>
kwHEADING == <<"H","E","A","D","I","N","G">>
kwON == <<"O","N">>
kwOFF == <<"O","F","F">>
kwTEST == <<"T","E","S","T">>
kwForward == <<"f","o","r","w","a","r","d">>
kwBackward == <<"b","a","c","k","w","a","r","d">>
kwStop == <<"s","t","o","p">>

\* the fields of a line joined by commas
RECURSIVE Join(_)
Join(fields) ==
  IF Len(fields) = 0 THEN <<>>
  ELSE IF Len(fields) = 1 THEN fields[1]
  ELSE fields[1] \o <<",">> \o Join(Tail(fields))

\* n copies of the byte c
Fill(c, n) == [i \in 1..n |-> c]

DigitChar == <<"0","1","2","3","4","5","6","7","8","9">>

\* the decimal numeral of an integer, as the host prints it
RECURSIVE Dec(_)
Dec(n) == IF n < 10 THEN <<DigitChar[n + 1]>>
          ELSE Dec(n \div 10) \o <<DigitChar[(n % 10) + 1]>>

Num(n) == IF n < 0 THEN <<"-">> \o Dec(-n) ELSE Dec(n)

MoveLine(a, b, c, d) == Join(<<kwMOVE, Num(a), Num(b), Num(c), Num(d)>>)
BareLine(a, b, c, d) == Join(<<Num(a), Num(b), Num(c), Num(d)>>)


---------------------------------------------------------------------------
(* Advanced controller: status channel and motor actuation.                *)
(* The operators below act on a record s of the globals a handler touches: *)
(* baseSpeeds, balancingEnabled, headingControlEnabled, target_heading,    *)
(* motorDir, motorPwm, cmdBuffer, out, dispatched.                         *)

msgMpuFailed == "MPU6050 connection failed!"
msgMpuOk == "MPU6050 initialized."
msgTipOver == "TIP-OVER DETECTED! Stopping motors."
msgInvalid == "Error: Invalid command format"
msgOverflow == "Error: Command buffer overflow"
msgMove == "MOVE: %d, %d, %d, %d"
msgBalanceOn == "Balancing enabled"
msgBalanceOff == "Balancing disabled"
msgHeading == "Heading set to %.2f"
msgStop == "Motors stopped; controls disabled"
msgTelemetry == "Pitch: %.2f, Yaw: %.2f, BalCorr: %.2f, HeadCorr: %.2f, Odom:(%.2f,%.2f)"

sendStatus(s, msg) == [s EXCEPT !.out = Append(@, msg)]

\* setMotor() without its constrain()
setMotorUnclamped(s, index, speed) ==
  IF index \notin Motors THEN s
  ELSE [s EXCEPT !.motorDir[index] = (speed >= 0),
                 !.motorPwm[index] = Abs(speed)]

setMotor(s, index, speed) ==
  IF index \notin Motors THEN s
  ELSE LET sp == constrain(speed, -PWM_MAX, PWM_MAX)
       IN [s EXCEPT !.motorDir[index] = (sp >= 0),
                    !.motorPwm[index] = Abs(sp)]

setAllMotors(s, speeds) ==
  setMotor(setMotor(setMotor(setMotor(s, 1, speeds[1]), 2, speeds[2]),
                    3, speeds[3]), 4, speeds[4])

\* a stop that clears the base speeds with the wheels
stopMotorsAndBase(s) == [setAllMotors(s, Zeros) EXCEPT !.baseSpeeds = Zeros]

stopMotors(s) == setAllMotors(s, Zeros)

---------------------------------------------------------------------------
(* Advanced controller: command dispatcher *)

\* the loop "for i < NUM_MOTORS: token = strtok; if (!token) return false;
\* baseSpeeds[i] = atoi(token)" over the value tokens vals
MoveAssign(base, vals) ==
  [i \in Motors |-> IF i <= Len(vals) THEN atoi(vals[i]) ELSE base[i]]

\* parseCommand(cmd): the globals after the call, and its return value
parseCommand(s, cmd) ==
  LET toks == Tokens(cmd)
      args == IF toks = <<>> THEN <<>> ELSE Tail(toks)
  IN
  IF toks = <<>> THEN [s |-> s, ok |-> FALSE]
  ELSE IF strcasecmp0(toks[1], kwMOVE) THEN
    LET s1 == [s EXCEPT !.baseSpeeds = MoveAssign(@, args)]
    IN IF Len(args) < NUM_MOTORS
         THEN [s |-> s1, ok |-> FALSE]
         ELSE [s |-> sendStatus(s1, msgMove), ok |-> TRUE]
  ELSE IF strcasecmp0(toks[1], kwBALANCE) THEN
    IF args = <<>> THEN [s |-> s, ok |-> FALSE]
    ELSE IF strcasecmp0(args[1], kwON)
      THEN [s |-> sendStatus([s EXCEPT !.balancingEnabled = TRUE], msgBalanceOn),
            ok |-> TRUE]
    ELSE IF strcasecmp0(args[1], kwOFF)
      THEN [s |-> sendStatus([s EXCEPT !.balancingEnabled = FALSE], msgBalanceOff),
            ok |-> TRUE]
    ELSE [s |-> s, ok |-> FALSE]
  ELSE IF strcasecmp0(toks[1], kwHEADING) THEN
    IF args = <<>> THEN [s |-> s, ok |-> FALSE]
    ELSE [s |-> sendStatus([s EXCEPT !.target_heading = atof(args[1]),
                                     !.headingControlEnabled = TRUE], msgHeading),
          ok |-> TRUE]
  ELSE IF strcasecmp0(toks[1], kwSTOP) THEN
    [s |-> sendStatus([stopMotors(s) EXCEPT !.balancingEnabled = FALSE,
                                            !.headingControlEnabled = FALSE],
                      msgStop),
     ok |-> TRUE]
  ELSE [s |-> s, ok |-> FALSE]

\* the iterations of a "while (Serial.available() > 0)" loop that only store a
\* byte are taken together: the number of bytes of `bytes` from the i-th on
\* that come before the next byte of `special`
RunLength(bytes, i, special) ==
  LET T == {j \in i..Len(bytes) : bytes[j] \in special}
  IN IF T = {} THEN Len(bytes) - i + 1
     ELSE (CHOOSE j \in T : \A k \in T : j <= k) - i

\* the branch "c == '\n' || c == '\r'" of processSerialCommands() with a
\* non-empty buffer: the line is dispatched and the buffer reset
AdvDispatch(s, line) ==
  Only({[(IF r.ok THEN r.s ELSE sendStatus(r.s, msgInvalid))
           EXCEPT !.dispatched = Append(@, line)] :
        r \in {parseCommand(s, line)}})

\* the last branch of processSerialCommands(): no room for the byte
AdvOverflow(s) == sendStatus(s, msgOverflow)

\* processSerialCommands(): "while (Serial.available() > 0)" over the bytes the
\* UART holds, from the i-th on, buf being the first cmdIndex bytes of cmdBuffer
RECURSIVE AdvDrain(_, _, _, _)
AdvDrain(s, buf, bytes, i) ==
  IF i > Len(bytes) THEN [s EXCEPT !.cmdBuffer = buf]
  ELSE IF bytes[i] = LF \/ bytes[i] = CR THEN
    IF Len(buf) > 0
      THEN AdvDrain(AdvDispatch(s, buf), <<>>, bytes, i + 1)
      ELSE AdvDrain(s, buf, bytes, i + 1)
  ELSE IF Len(buf) < CMD_BUFFER_SIZE - 1
    THEN AdvDrain(s, buf \o SubSeq(bytes, i, i + Min2(RunLength(bytes, i, {LF, CR}),
                                    CMD_BUFFER_SIZE - 1 - Len(buf)) - 1),
         bytes, i + Min2(RunLength(bytes, i, {LF, CR}),
                         CMD_BUFFER_SIZE - 1 - Len(buf)))
    ELSE AdvDrain(AdvOverflow(s), <<>>, bytes, i + 1)

\* processSerialCommands() that starts every call on an empty line
processSerialCommandsFresh(s, bytes) == AdvDrain(s, <<>>, bytes, 1)

processSerialCommands(s, bytes) == AdvDrain(s, s.cmdBuffer, bytes, 1)

---------------------------------------------------------------------------
(* Advanced controller: sensing and control loops *)

\* One IMU reading: gyroRate = gx / 131.0 and yawRate = gz / 131.0 in deg/s,
\* pitch_acc = atan2(ax, sqrt(ay*ay + az*az)) * 180 / PI in degrees.
Level == [gyroRate |-> 0, pitch_acc |-> 0, yawRate |-> 0]
TipForward == [gyroRate |-> 250, pitch_acc |-> 90, yawRate |-> 0]
TipBackward == [gyroRate |-> -250, pitch_acc |-> -90, yawRate |-> 0]
Turning == [gyroRate |-> 0, pitch_acc |-> 0, yawRate |-> 200]
TurningBack == [gyroRate |-> 0, pitch_acc |-> 0, yawRate |-> -200]
LyingForward == [gyroRate |-> 0, pitch_acc |-> 90, yawRate |-> 0]
LyingBackward == [gyroRate |-> 0, pitch_acc |-> -90, yawRate |-> 0]

\* updateIMU(): the complementary filter, on the fixed interval dt_imu
FusedPitch(p, m) ==
  LET pitch_gyro == 100 * p + (m.gyroRate * dt_imu) \div 10   \* centi-degrees
  IN TruncDiv(ALPHA * pitch_gyro + (100 - ALPHA) * 100 * m.pitch_acc, 10000)

\* updateIMU(): yaw integration and the two wrap tests
IntegratedYaw(y, m) ==
  LET y1 == y + TruncDiv(m.yawRate * dt_imu, 1000)
      y2 == IF y1 > 180 THEN y1 - 360 ELSE y1
  IN IF y2 < -180 THEN y2 + 360 ELSE y2

Finite(v) == [finite |-> TRUE, milli |-> v]
NonFinite == [finite |-> FALSE, milli |-> 0]

\* a term gain * (num / dt) of a PID sum, in thousandths; dt in ms
RateTerm(gain, num, dt) ==
  IF dt = 0 THEN NonFinite ELSE Finite(TruncDiv(gain * num * 1000, dt))

\* computeBalancingPID(dt)
computeBalancingPID(p, sum, lastError, dt) ==
  LET balance_error == 0 - p
      integral1 == sum + balance_error * dt
      d == RateTerm(Kd_balance, balance_error - lastError, dt)
  IN [integral |-> integral1,
      lastError |-> balance_error,
      correction |->
        IF d.finite
          THEN Finite(Kp_balance * balance_error
                      + TruncDiv(Ki_balance * integral1, 1000) + d.milli)
          ELSE NonFinite]

\* computeHeadingPID(dt)
computeHeadingPID(target, y, sum, dt) ==
  LET heading_error == target - y
      integral1 == sum + heading_error * dt
      d == RateTerm(Kd_heading, heading_error, dt)
  IN [integral |-> integral1,
      correction |->
        IF d.finite
          THEN Finite(Kp_heading * heading_error
                      + TruncDiv(Ki_heading * integral1, 1000) + d.milli)
          ELSE NonFinite]

\* the int16_t values "finalSpeeds[i] = baseSpeeds[i] + sb*bal + sh*head" may store
MixedSpeed(base, sb, bal, sh, head) ==
  LET v == TruncDiv(1000 * base + sb * bal.milli + sh * head.milli, 1000)
  IN IF bal.finite /\ head.finite /\ InInt16(v) THEN {v} ELSE UndefinedInt16

\* the mixer: FL, FR, RL, RR
FinalSpeeds(base, bal, head) ==
  {Str4(fl, fr, rl, rr) :
     fl \in MixedSpeed(base[1], -1, bal, 1, head),
     fr \in MixedSpeed(base[2], -1, bal, -1, head),
     rl \in MixedSpeed(base[3], 1, bal, 1, head),
     rr \in MixedSpeed(base[4], 1, bal, -1, head)}


---------------------------------------------------------------------------
(* The host and the UART *)

\* the host writes the line l, terminated by t, to the serial link
SendLine(Lines, Terms) ==
  /\ pc = "run"
  /\ wire = <<>>
  /\ \E l \in Lines, t \in Terms : wire' = l \o t
  /\ UNCHANGED <<pc, pitch, yaw, target_heading, lastPitchError, balance_integral,
                 balance_correction, heading_integral, heading_correction,
                 balancingEnabled, headingControlEnabled, baseSpeeds, cmdBuffer,
                 motorDir, motorPwm, lastExit, rx, out, dispatched, lineVars, driftVars, serialOpen, fnVars, dashVars,
                 testRuns>>

\* the bytes that may reach the UART between two iterations when the host sends
\* whole lines, one at a time, and only while the receive queue is empty
WholeLines(Lines, Terms) ==
  {<<>>} \cup (IF rx = <<>> THEN {l \o t : l \in Lines, t \in Terms} ELSE {})

\* the bytes that may reach the UART between two iterations when the bytes of
\* the link arrive in pieces, split anywhere
Pieces == {k \in 0..Len(wire) : Len(rx) + k <= RxCapacity}

---------------------------------------------------------------------------
(* Advanced controller: setup() and loop() *)

\* dt in milliseconds, "(currentTime - lastTime)": loop() first runs in the
\* millisecond in which setup() read millis(); an iteration that ran to its end
\* waited in delay(10); one that returned at the tip-over took only the time of
\* the IMU read and the status print, which has no lower bound in the code (a
\* failed bus read returns at once), so millis() may not have advanced
Elapsed(exit) ==
  CASE exit = "setup" -> {DtFirst}
    [] exit = "return" -> {0, DtAfterReturn}
    [] exit = "delay" -> {DtAfterDelay}

Globals ==
  [baseSpeeds |-> baseSpeeds, balancingEnabled |-> balancingEnabled,
   headingControlEnabled |-> headingControlEnabled,
   target_heading |-> target_heading, motorDir |-> motorDir,
   motorPwm |-> motorPwm, cmdBuffer |-> cmdBuffer,
   out |-> <<>>, dispatched |-> <<>>, testRuns |-> <<>>]

Commit(s) ==
  /\ baseSpeeds' = s.baseSpeeds
  /\ balancingEnabled' = s.balancingEnabled
  /\ headingControlEnabled' = s.headingControlEnabled
  /\ target_heading' = s.target_heading
  /\ motorDir' = s.motorDir
  /\ motorPwm' = s.motorPwm
  /\ cmdBuffer' = s.cmdBuffer
  /\ out' = s.out
  /\ dispatched' = s.dispatched
  /\ testRuns' = s.testRuns

\* the memory after reset
InitMemory ==
  /\ pitch = 0 /\ yaw = 0 /\ target_heading = 0
  /\ lastPitchError = 0
  /\ balance_integral = 0 /\ balance_correction = Finite(0)
  /\ heading_integral = 0 /\ heading_correction = Finite(0)
  /\ balancingEnabled = FALSE /\ headingControlEnabled = FALSE
  /\ baseSpeeds = Zeros
  /\ cmdBuffer = <<>>
  /\ motorDir = [i \in Motors |-> FALSE]
  /\ motorPwm = Zeros
  /\ lastExit = "setup"
  /\ rx = <<>> /\ wire = <<>>
  /\ out = <<>> /\ dispatched = <<>>
  /\ direction = 0
  /\ leftValues = [i \in 1..FILTER_SIZE |-> 0]
  /\ centerValues = [i \in 1..FILTER_SIZE |-> 0]
  /\ rightValues = [i \in 1..FILTER_SIZE |-> 0]
  /\ filterIndex = 0
  /\ previousError = 0 /\ integral = 0
  /\ yawAngle = 0
  /\ baseMotorSpeeds = Zeros
  /\ pidController = [integral |-> 0, lastError |-> 0]
  /\ state = [mpuInitialized |-> FALSE, straightDriveActive |-> FALSE]
  /\ testRuns = <<>>

\* the page of the dashboard as the script finds it when it is loaded
InitPage ==
  /\ isSerialConnected = FALSE
  /\ socketConnected = FALSE
  /\ lastGamepadCommandKey = "null"
  /\ lastKeyboardCommandKey = "null"
  /\ gamepad = FALSE
  /\ keysPressed = {}
  /\ controlsEnabled = FALSE
  /\ handled = [event |-> <<"DOMContentLoaded", "">>, emitted |-> <<>>,
                lastEmitted |-> <<>>, confirmed |-> FALSE]

\* calculatePosition() not called
InitNoCall == readings = <<0, 0, 0>> /\ linePosition = -1

\* the state in which setup() goes on after its wait for the port
InitAdvanced ==
  pc = "boot" /\ serialOpen = TRUE /\ InitMemory /\ InitPage /\ InitNoCall

\* setup(): initializeMotors(), then the MPU6050 connection test
AdvSetup ==
  /\ pc = "boot"
  /\ \E connected \in BOOLEAN :
       /\ pc' = IF connected THEN "run" ELSE "halt"
       /\ out' = IF connected THEN <<msgMpuOk>> ELSE <<msgMpuFailed>>
  /\ motorDir' = [i \in Motors |-> FALSE]
  /\ motorPwm' = Zeros
  /\ lastExit' = "setup"
  /\ UNCHANGED <<pitch, yaw, target_heading, lastPitchError, balance_integral,
                 balance_correction, heading_integral, heading_correction,
                 balancingEnabled, headingControlEnabled, baseSpeeds, cmdBuffer,
                 rx, wire, dispatched, lineVars, driftVars, serialOpen, fnVars, dashVars, testRuns>>

\* one iteration of loop() on the IMU reading m, dt milliseconds after the last,
\* the UART having received the bytes `arrived` since
AdvIteration(m, dt, arrived) ==
  LET p1 == FusedPitch(pitch, m)
      bal == computeBalancingPID(p1, balance_integral, lastPitchError, dt)
      head == computeHeadingPID(target_heading, IntegratedYaw(yaw, m),
                                heading_integral, dt)
      balCorr == IF balancingEnabled THEN bal.correction ELSE Finite(0)
      headCorr == IF headingControlEnabled THEN head.correction ELSE Finite(0)
  IN
  /\ pitch' = p1
  /\ yaw' = IntegratedYaw(yaw, m)
  /\ balance_integral' = IF balancingEnabled THEN bal.integral ELSE balance_integral
  /\ lastPitchError' = IF balancingEnabled THEN bal.lastError ELSE lastPitchError
  /\ balance_correction' = balCorr
  /\ IF balancingEnabled /\ Abs(p1) > TIP_OVER_THRESHOLD
       THEN \* sendStatus, stopMotors(), return
            /\ \E s1 \in {stopMotors(sendStatus(Globals, msgTipOver))} : Commit(s1)
            /\ lastExit' = "return"
            /\ rx' = rx \o arrived
            /\ UNCHANGED <<heading_integral, heading_correction>>
       ELSE /\ heading_integral' =
                 IF headingControlEnabled THEN head.integral ELSE heading_integral
            /\ heading_correction' = headCorr
            /\ rx' = <<>>
            /\ \E s1 \in {processSerialCommands(Globals, rx \o arrived)} :
                 \E finalSpeeds \in FinalSpeeds(s1.baseSpeeds, balCorr, headCorr) :
                   \E s2 \in {sendStatus(setAllMotors(s1, finalSpeeds), msgTelemetry)} :
                     Commit(s2)
            /\ lastExit' = "delay"
  /\ UNCHANGED <<pc, lineVars, driftVars, serialOpen, fnVars, dashVars>>

\* loop() on one of the IMU readings Readings, when whole lines of Lines arrive
AdvLoop(Readings, Lines) ==
  /\ pc = "run"
  /\ balancingEnabled => Abs(balance_integral) <= MaxBalanceIntegral
  /\ headingControlEnabled => Abs(heading_integral) <= MaxHeadingIntegral
  /\ \E m \in Readings, dt \in Elapsed(lastExit) :
       \E arrived \in WholeLines(Lines, {<<LF>>}) :
         AdvIteration(m, dt, arrived) /\ UNCHANGED wire

\* loop() on one of the IMU readings Readings, when the bytes of the link
\* arrive in pieces
AdvLoopPieces(Readings) ==
  /\ pc = "run"
  /\ balancingEnabled => Abs(balance_integral) <= MaxBalanceIntegral
  /\ headingControlEnabled => Abs(heading_integral) <= MaxHeadingIntegral
  /\ \E m \in Readings, dt \in Elapsed(lastExit) :
       \E k \in Pieces :
         /\ AdvIteration(m, dt, SubSeq(wire, 1, k))
         /\ wire' = SubSeq(wire, k + 1, Len(wire))

\* Tilt scenario: the robot stands level until it starts to fall forwards or
\* backwards, keeps falling once it has started, and then lies on the ground.
Falling(p) ==
  IF p = 0 THEN {Level, TipForward, TipBackward}
  ELSE IF Abs(p) < LyingPitch THEN (IF p > 0 THEN {TipForward} ELSE {TipBackward})
  ELSE (IF p > 0 THEN {LyingForward} ELSE {LyingBackward})

\* the robot stands level throughout
Standing(p) == {Level}

(* SpecAdvanced: the controller while the robot may fall over *)

AdvLines ==
  { MoveLine(100, 100, 100, 100),
    Join(<<kwBALANCE, kwON>>),
    Join(<<kwHEADING, Num(90)>>),
    kwSTOP }

AdvCycle == AdvLoop(Falling(pitch), AdvLines)

NextAdvanced == AdvSetup \/ AdvCycle

SpecAdvanced == InitAdvanced /\ [][NextAdvanced]_vars

(* SpecYaw: the controller while the robot turns on the spot *)

\* the robot turns one way or the other
Spinning == {Turning, TurningBack}

YawLines == { MoveLine(100, 100, 100, 100) }

YawCycle == AdvLoop(Spinning, YawLines)

NextYaw == AdvSetup \/ YawCycle

SpecYaw == InitAdvanced /\ [][NextYaw]_vars

(* SpecBoot: the same controller, every step of setup() and loop() taken in time *)
\* the processor never stops executing: setup() runs, and loop() is called
\* again whenever it has returned
SpecBoot == SpecYaw /\ WF_vars(AdvSetup) /\ WF_vars(YawCycle)

(* SpecCommands: the command dispatcher of the controller, robot level *)

CommandLines ==
  { MoveLine(100, 100, 100, 100),
    MoveLine(300, -300, 40000, -40000),
    MoveLine(-255, 255, 0, 7),
    MoveLine(32767, 32767, -32768, -32768),
    Join(<<kwMOVE, Num(5), Num(6)>>),
    Join(<<kwMOVE, <<"a","b","c">>, Num(1), Num(2), Num(3)>>),
    Join(<<kwMOVE, <<"1","2","x">>, Num(1), Num(2), Num(3)>>),
    Join(<<kwMOVE, Num(1), Num(2), Num(3), Num(4), Num(5)>>),
    BareLine(100, 100, 100, 100),
    Join(<<<<"a","b","c">>, Num(1), Num(2), Num(3)>>),
    Join(<<<<"m","o","v","e">>, Num(9), Num(9), Num(9), Num(9)>>),
    Join(<<kwBALANCE, kwON>>),
    Join(<<kwBALANCE, kwOFF>>),
    Join(<<kwBALANCE, <<"M","A","Y","B","E">>>>),
    Join(<<kwHEADING, Num(90)>>),
    kwSTOP }

CommandCycle == AdvLoop(Standing(pitch), CommandLines)

NextCommands == AdvSetup \/ CommandCycle

SpecCommands == InitAdvanced /\ [][NextCommands]_vars

(* SpecSerial: the line assembly of the controller, byte by byte *)

\* a line one byte too long for cmdBuffer, followed by the text of a command
OverLongLine == Fill("A", CMD_BUFFER_SIZE) \o MoveLine(255, 255, 255, 255)

SerialLines == { MoveLine(100, 100, 100, 100), kwSTOP, OverLongLine }

SerialTerms == { <<LF>>, <<CR, LF>> }

SerialSend == SendLine(SerialLines, SerialTerms)

SerialCycle == AdvLoopPieces(Standing(pitch))

NextSerial == AdvSetup \/ SerialSend \/ SerialCycle

SpecSerial == InitAdvanced /\ [][NextSerial]_vars

---------------------------------------------------------------------------
(* Extended controller (v1.1): bare speed lines and the TEST command *)

MaxTestDuration == 30000

msgExtInit == "Mecanum 4-Wheel Motor Controller Initialized (v1.1)"
msgExtReady == "Ready for commands: 's1,s2,s3,s4' or 'TEST,idx,spd,dur'"
msgExtReceived == "Received command: "
msgExtOverflow == "Error: Command buffer overflow. Command ignored."
msgExtTestFailed == "Error: Failed to parse TEST command."
msgExtSpeedFailed == "Error: Failed to parse speed command. Format: s1,s2,s3,s4"
msgExtSetSpeeds == "Set speeds: %d, %d, %d, %d"
msgExtBadIndex == "Error: Invalid motor index %d. Must be 0-%d."
msgExtCapped == "Warning: Test duration capped at 30000ms."
msgExtTesting == "Testing Motor %d at speed %d for %lu ms..."
msgExtTested == "Test finished for Motor %d."
msgExtStopping == "Stopping all motors."

debugPrint(s, msg) == [s EXCEPT !.out = Append(@, msg)]

\* setMotorSpeed(index, speed), index counted from 0 as in the sketch
setMotorSpeed(s, index, speed) ==
  IF index < 0 \/ index >= NUM_MOTORS THEN s
  ELSE [s EXCEPT !.motorDir[index + 1] = ~(speed < 0),
                 !.motorPwm[index + 1] = constrain(Abs(speed), 0, PWM_MAX)]

stopAllMotors(s) ==
  setMotorSpeed(setMotorSpeed(setMotorSpeed(setMotorSpeed(
    debugPrint(s, msgExtStopping), 0, 0), 1, 0), 2, 0), 3, 0)

\* parseSpeedCommand(): the loop over the tokens, count values stored so far
RECURSIVE SpeedTokens(_, _, _)
SpeedTokens(toks, count, speeds) ==
  IF toks = <<>> \/ count >= NUM_MOTORS
    THEN [ok |-> count = NUM_MOTORS, speeds |-> speeds]
    ELSE LET r == strtol(toks[1])
         IN IF r.end # 1 /\ r.end = Len(toks[1]) + 1
              THEN SpeedTokens(Tail(toks), count + 1,
                               [speeds EXCEPT ![count + 1] = Wrap16(r.val)])
              ELSE [ok |-> FALSE, speeds |-> speeds]

parseSpeedCommand(command) ==
  SpeedTokens(Tokens(strncpy(command, CMD_BUFFER_SIZE - 1)), 0, Zeros)

\* "%lu" given the digits of v: a negative v is negated in unsigned arithmetic,
\* which for the magnitudes sent here is a value above every duration accepted
strtoul(v) == IF v < 0 THEN MaxTestDuration + 1 ELSE v

\* one "%d" or "%lu" of sscanf at the i-th byte of s
ScanInt(s, i) ==
  LET r == strtol(SubSeq(s, i, Len(s)))
  IN [ok |-> r.end # 1, val |-> r.val, next |-> i + r.end - 1]

\* sscanf(command, "TEST,%d,%d,%lu", ...): the number of values assigned
ScanTest(command) ==
  LET a == ScanInt(command, Len(kwTEST) + 2)
      b == ScanInt(command, a.next + 1)
      c == ScanInt(command, b.next + 1)
      comma(i) == i <= Len(command) /\ command[i] = ","
  IN IF ~a.ok THEN [n |-> 0, motorIndex |-> 0, speed |-> 0, duration |-> 0]
     ELSE IF ~comma(a.next) \/ ~b.ok
       THEN [n |-> 1, motorIndex |-> Wrap16(a.val), speed |-> 0, duration |-> 0]
     ELSE IF ~comma(b.next) \/ ~c.ok
       THEN [n |-> 2, motorIndex |-> Wrap16(a.val), speed |-> Wrap16(b.val),
             duration |-> 0]
     ELSE [n |-> 3, motorIndex |-> Wrap16(a.val), speed |-> Wrap16(b.val),
           duration |-> strtoul(c.val)]

\* parseTestCommand() without the limit on the duration
parseTestCommandUncapped(s, command) ==
  LET t == ScanTest(command)
  IN IF t.n # 3 THEN [s |-> s, ok |-> FALSE, t |-> t]
     ELSE IF t.motorIndex < 0 \/ t.motorIndex >= NUM_MOTORS
       THEN [s |-> debugPrint(s, msgExtBadIndex), ok |-> FALSE, t |-> t]
     ELSE [s |-> s, ok |-> TRUE, t |-> t]

\* parseTestCommand(): globals after the call, return value, values parsed
parseTestCommand(s, command) ==
  LET t == ScanTest(command)
  IN IF t.n # 3 THEN [s |-> s, ok |-> FALSE, t |-> t]
     ELSE IF t.motorIndex < 0 \/ t.motorIndex >= NUM_MOTORS
       THEN [s |-> debugPrint(s, msgExtBadIndex), ok |-> FALSE, t |-> t]
     ELSE IF t.duration > MaxTestDuration
       THEN [s |-> debugPrint(s, msgExtCapped), ok |-> TRUE,
             t |-> [t EXCEPT !.duration = MaxTestDuration]]
     ELSE [s |-> s, ok |-> TRUE, t |-> t]

\* executeTest() ending with stopAllMotors() instead of stopping the one motor
executeTestStopAll(s, motorIndex, speed, duration) ==
  IF motorIndex < 0 \/ motorIndex >= NUM_MOTORS THEN s
  ELSE debugPrint(
         stopAllMotors(
           [setMotorSpeed(debugPrint(s, msgExtTesting), motorIndex, speed)
              EXCEPT !.testRuns = Append(@, [motorIndex |-> motorIndex,
                                             speed |-> speed,
                                             duration |-> duration])]),
         msgExtTested)

\* executeTest(): run the motor, delay(duration), stop the motor
executeTest(s, motorIndex, speed, duration) ==
  IF motorIndex < 0 \/ motorIndex >= NUM_MOTORS THEN s
  ELSE debugPrint(
         setMotorSpeed(
           [setMotorSpeed(debugPrint(s, msgExtTesting), motorIndex, speed)
              EXCEPT !.testRuns = Append(@, [motorIndex |-> motorIndex,
                                             speed |-> speed,
                                             duration |-> duration])],
           motorIndex, 0),
         msgExtTested)

\* handleCommand() of the extended controller
ExtHandleCommand(s, command) ==
  LET s0 == [debugPrint(s, msgExtReceived) EXCEPT !.dispatched = Append(@, command)]
  IN IF strncmp0(command, Append(kwTEST, ","))
       THEN Only({ IF r.ok
                     THEN executeTest(r.s, r.t.motorIndex, r.t.speed, r.t.duration)
                     ELSE debugPrint(r.s, msgExtTestFailed) :
                   r \in {parseTestCommand(s0, command)} })
       ELSE Only({ IF r.ok
                     THEN debugPrint(
                            setMotorSpeed(setMotorSpeed(setMotorSpeed(setMotorSpeed(
                              s0, 0, r.speeds[1]), 1, r.speeds[2]), 2, r.speeds[3]),
                              3, r.speeds[4]),
                            msgExtSetSpeeds)
                     ELSE debugPrint(s0, msgExtSpeedFailed) :
                   r \in {parseSpeedCommand(command)} })

\* "while (Serial.available() > 0 && Serial.read() != '\n');" from the i-th
\* byte the UART holds: the index of the first byte left unread
RECURSIVE ExtFlush(_, _)
ExtFlush(bytes, i) ==
  IF i > Len(bytes) THEN i
  ELSE IF bytes[i] = LF THEN i + 1
  ELSE ExtFlush(bytes, i + 1)

\* processSerialInput() storing every byte without comparing cmdIndex with
\* the size of the buffer
RECURSIVE ExtDrainUnchecked(_, _, _, _)
ExtDrainUnchecked(s, buf, bytes, i) ==
  IF i > Len(bytes) THEN [s EXCEPT !.cmdBuffer = buf]
  ELSE IF bytes[i] = BS \/ bytes[i] = DEL THEN
    ExtDrainUnchecked(s, IF Len(buf) > 0 THEN SubSeq(buf, 1, Len(buf) - 1) ELSE buf,
                      bytes, i + 1)
  ELSE IF bytes[i] = LF \/ bytes[i] = CR THEN
    IF Len(buf) > 0
      THEN ExtDrainUnchecked(ExtHandleCommand(s, SubSeq(buf, 1, Min2(Len(buf), CMD_BUFFER_SIZE - 1))),
                             <<>>, bytes, i + 1)
      ELSE ExtDrainUnchecked(s, <<>>, bytes, i + 1)
  ELSE ExtDrainUnchecked(s, buf \o SubSeq(bytes, i, i + RunLength(bytes, i, {LF, CR, BS, DEL}) - 1),
                         bytes, i + RunLength(bytes, i, {LF, CR, BS, DEL}))

\* processSerialInput() of the extended controller over the bytes the UART
\* holds, from the i-th on, buf being the first cmdIndex bytes of cmdBuffer
RECURSIVE ExtDrain(_, _, _, _)
ExtDrain(s, buf, bytes, i) ==
  IF i > Len(bytes) THEN [s EXCEPT !.cmdBuffer = buf]
  ELSE IF bytes[i] = BS \/ bytes[i] = DEL THEN
    ExtDrain(s, IF Len(buf) > 0 THEN SubSeq(buf, 1, Len(buf) - 1) ELSE buf,
             bytes, i + 1)
  ELSE IF bytes[i] = LF \/ bytes[i] = CR THEN
    IF Len(buf) > 0
      THEN ExtDrain(ExtHandleCommand(s, buf), <<>>, bytes, i + 1)
      ELSE ExtDrain(s, <<>>, bytes, i + 1)
  ELSE IF Len(buf) < CMD_BUFFER_SIZE - 1
    THEN ExtDrain(s, buf \o SubSeq(bytes, i, i + Min2(RunLength(bytes, i, {LF, CR, BS, DEL}),
                                    CMD_BUFFER_SIZE - 1 - Len(buf)) - 1),
         bytes, i + Min2(RunLength(bytes, i, {LF, CR, BS, DEL}),
                         CMD_BUFFER_SIZE - 1 - Len(buf)))
    ELSE ExtDrain(debugPrint(s, msgExtOverflow), <<>>, bytes,
                  ExtFlush(bytes, i + 1))

ExtProcessSerialInput(s, bytes) == ExtDrain(s, s.cmdBuffer, bytes, 1)

\* setup() of the extended controller
ExtSetup ==
  /\ pc = "boot"
  /\ pc' = "run"
  /\ \E s1 \in {stopAllMotors(Globals)} :
       Commit([s1 EXCEPT !.out = <<msgExtInit, msgExtReady>>])
  /\ UNCHANGED <<pitch, yaw, lastPitchError, balance_integral, balance_correction,
                 heading_integral, heading_correction, lastExit, rx, wire,
                 lineVars, driftVars, serialOpen, fnVars, dashVars>>

\* loop() of the extended controller, k more bytes of the link having arrived
ExtLoop ==
  /\ pc = "run"
  /\ \E k \in Pieces :
       /\ wire' = SubSeq(wire, k + 1, Len(wire))
       /\ \E s1 \in {ExtProcessSerialInput(Globals, rx \o SubSeq(wire, 1, k))} :
            Commit(s1)
  /\ rx' = <<>>
  /\ UNCHANGED <<pc, pitch, yaw, lastPitchError, balance_integral,
                 balance_correction, heading_integral, heading_correction,
                 lastExit, lineVars, driftVars, serialOpen, fnVars, dashVars>>

ExtLines ==
  { BareLine(100, -100, 50, -50),
    BareLine(300, -300, 0, 7),
    Join(<<Num(1), Num(2), Num(3)>>),
    Join(<<Num(1), Num(2), Num(3), Num(4), Num(5)>>),
    Join(<<<<"a","b","c">>, Num(1), Num(2), Num(3)>>),
    Join(<<Num(1), Num(2), Num(3), <<"4","x">>>>),
    Join(<<Num(1), Num(2), Num(3), <<"9", BS, "4">>>>),
    Join(<<kwTEST, Num(2), Num(200), Num(500)>>),
    Join(<<kwTEST, Num(2), Num(200), Num(30000)>>),
    Join(<<kwTEST, Num(0), Num(-300), Num(40000)>>),
    Join(<<kwTEST, Num(7), Num(200), Num(500)>>),
    Join(<<kwTEST, Num(1), Num(200)>>),
    MoveLine(100, 100, 100, 100),
    Fill("A", CMD_BUFFER_SIZE) \o BareLine(255, 255, 255, 255) }

ExtSend == SendLine(ExtLines, SerialTerms)

InitExtended == InitAdvanced

NextExtended == ExtSetup \/ ExtSend \/ ExtLoop

SpecExtended == InitExtended /\ [][NextExtended]_vars

---------------------------------------------------------------------------
(* Line follower (advanced): sensors, PID, command words *)

msgLineReady == "Mecanum Line Follower Ready"
msgLineForward == "Moving forward"
msgLineBackward == "Moving backward"
msgLineStopped == "Stopped"
msgLineUnknown == "Unknown command: "

\* strcmp(a, b) == 0
strcmp0(a, b) == a = b

\* handleCommand() of the line follower, on a record of direction, out,
\* dispatched
LineHandleCommand(s, command) ==
  LET s0 == [s EXCEPT !.dispatched = Append(@, command)]
  IN IF strcmp0(command, kwForward)
       THEN [s0 EXCEPT !.direction = 1, !.out = Append(@, msgLineForward)]
     ELSE IF strcmp0(command, kwBackward)
       THEN [s0 EXCEPT !.direction = -1, !.out = Append(@, msgLineBackward)]
     ELSE IF strcmp0(command, kwStop)
       THEN [s0 EXCEPT !.direction = 0, !.out = Append(@, msgLineStopped)]
     ELSE [s0 EXCEPT !.out = Append(@, msgLineUnknown)]

\* processSerialInput() of the line follower over the bytes the UART holds,
\* from the i-th on, buf being the first cmdIndex bytes of cmdBuffer; a byte
\* for which there is no room falls through both branches
RECURSIVE LineDrain(_, _, _, _)
LineDrain(s, buf, bytes, i) ==
  IF i > Len(bytes) THEN [s EXCEPT !.cmdBuffer = buf]
  ELSE IF bytes[i] = LF \/ bytes[i] = CR THEN
    IF Len(buf) > 0
      THEN LineDrain(LineHandleCommand(s, buf), <<>>, bytes, i + 1)
      ELSE LineDrain(s, buf, bytes, i + 1)
  ELSE IF Len(buf) < CMD_BUFFER_SIZE - 1
    THEN LineDrain(s, buf \o SubSeq(bytes, i, i + Min2(RunLength(bytes, i, {LF, CR}),
                                    CMD_BUFFER_SIZE - 1 - Len(buf)) - 1),
         bytes, i + Min2(RunLength(bytes, i, {LF, CR}),
                         CMD_BUFFER_SIZE - 1 - Len(buf)))
    ELSE LineDrain(s, buf, bytes, i + 1)

LineProcessSerialInput(bytes) ==
  LineDrain([direction |-> direction, cmdBuffer |-> cmdBuffer,
             out |-> <<>>, dispatched |-> <<>>],
            cmdBuffer, bytes, 1)

\* the filter buffer after "values[filterIndex] = raw"
Stored(values, raw) == [values EXCEPT ![filterIndex + 1] = raw]

RECURSIVE Sum(_, _)
Sum(values, i) == IF i > Len(values) THEN 0 ELSE values[i] + Sum(values, i + 1)

\* readSensors(): the smoothed value of one sensor
Smoothed(values) == TruncDiv(Sum(values, 1), FILTER_SIZE)

Max2(a, b) == IF a > b THEN a ELSE b

\* the weighted centroid alone, without the test for a uniform surface
calculatePositionCentroid(left, center, right) ==
  LET avgValue == TruncDiv(left + center + right, 3)
      lineIsDarker == avgValue < 512
      adjLeft == IF lineIsDarker THEN 1023 - left ELSE left
      adjCenter == IF lineIsDarker THEN 1023 - center ELSE center
      adjRight == IF lineIsDarker THEN 1023 - right ELSE right
      weightedSum == adjLeft * 0 + adjCenter * 500 + adjRight * 1000
      sumValues == adjLeft + adjCenter + adjRight
  IN IF sumValues # 0 THEN TruncDiv(100 * weightedSum, sumValues)
     ELSE 100 * SET_POINT

\* calculatePosition() inverting a reading about the middle of the range
calculatePositionMidpoint(left, center, right) ==
  LET avgValue == TruncDiv(left + center + right, 3)
      lineIsDarker == avgValue < 512
      adjLeft == IF lineIsDarker THEN 512 - left ELSE left
      adjCenter == IF lineIsDarker THEN 512 - center ELSE center
      adjRight == IF lineIsDarker THEN 512 - right ELSE right
      minVal == Min2(adjLeft, Min2(adjCenter, adjRight))
      maxVal == Max2(adjLeft, Max2(adjCenter, adjRight))
      weightedSum == adjLeft * 0 + adjCenter * 500 + adjRight * 1000
      sumValues == adjLeft + adjCenter + adjRight
  IN IF maxVal - minVal < UNIFORM_THRESHOLD THEN 100 * SET_POINT
     ELSE IF sumValues # 0 THEN TruncDiv(100 * weightedSum, sumValues)
     ELSE 100 * SET_POINT

\* calculatePosition(), in hundredths of a position unit
calculatePosition(left, center, right) ==
  LET avgValue == TruncDiv(left + center + right, 3)
      lineIsDarker == avgValue < 512
      adjLeft == IF lineIsDarker THEN 1023 - left ELSE left
      adjCenter == IF lineIsDarker THEN 1023 - center ELSE center
      adjRight == IF lineIsDarker THEN 1023 - right ELSE right
      minVal == Min2(adjLeft, Min2(adjCenter, adjRight))
      maxVal == Max2(adjLeft, Max2(adjCenter, adjRight))
      weightedSum == adjLeft * 0 + adjCenter * 500 + adjRight * 1000
      sumValues == adjLeft + adjCenter + adjRight
  IN IF maxVal - minVal < UNIFORM_THRESHOLD THEN 100 * SET_POINT
     ELSE IF sumValues # 0 THEN TruncDiv(100 * weightedSum, sumValues)
     ELSE 100 * SET_POINT

\* computePID(): integral, previousError and correction, in hundredths
computePID(position) ==
  LET error == 100 * SET_POINT - position
      integral1 == constrain(integral + error,
                             -(100 * INTEGRAL_LIMIT), 100 * INTEGRAL_LIMIT)
      derivative == error - previousError
  IN [integral |-> integral1,
      previousError |-> error,
      correction |-> TruncDiv(Kp * error + Ki * integral1 + Kd * derivative, 10)]

\* setMotorSpeeds(leftSpeed, rightSpeed): FL, FR, RL, RR
setMotorSpeeds(leftSpeed, rightSpeed) ==
  /\ motorDir' = Str4(leftSpeed >= 0, rightSpeed >= 0, leftSpeed >= 0, rightSpeed >= 0)
  /\ motorPwm' = Str4(Abs(leftSpeed), Abs(rightSpeed), Abs(leftSpeed), Abs(rightSpeed))

\* raw readings of the three reflectance sensors: left, center, right
OnLine == Str4(800, 200, 800, 0)
OffLine == Str4(200, 800, 800, 0)
\* a floor without a line: the three sensors read alike
Blank == Str4(600, 610, 590, 0)
Scenes == {OnLine, OffLine}

\* setup() of the line follower: setupMotors(), then the wait for the port
LineSetup ==
  /\ pc = "boot"
  /\ pc' = "run"
  /\ motorDir' = [i \in Motors |-> TRUE]
  /\ motorPwm' = Zeros
  /\ out' = <<msgLineReady>>
  /\ UNCHANGED <<pitch, yaw, target_heading, lastPitchError, balance_integral,
                 balance_correction, heading_integral, heading_correction,
                 balancingEnabled, headingControlEnabled, baseSpeeds, cmdBuffer,
                 lastExit, rx, wire, dispatched, lineVars, driftVars, serialOpen, fnVars, dashVars, testRuns>>

\* the bytes of the link reach the UART in bursts: none, or all it has room for
Bursts == {0, Min2(Len(wire), RxCapacity)}

\* loop() of the line follower, over the floors the sensors may see
LineCycle(scenes) ==
  /\ pc = "run"
  /\ \E k \in Bursts :
       /\ wire' = SubSeq(wire, k + 1, Len(wire))
       /\ \E s1 \in {LineProcessSerialInput(SubSeq(wire, 1, k))} :
            /\ cmdBuffer' = s1.cmdBuffer
            /\ out' = s1.out
            /\ dispatched' = s1.dispatched
            /\ direction' = s1.direction
            /\ IF s1.direction = 0
                 THEN /\ setMotorSpeeds(0, 0)
                      /\ UNCHANGED <<leftValues, centerValues, rightValues,
                                     filterIndex, previousError, integral>>
                 ELSE \E raw \in scenes :
                        /\ leftValues' = Stored(leftValues, raw[1])
                        /\ centerValues' = Stored(centerValues, raw[2])
                        /\ rightValues' = Stored(rightValues, raw[3])
                        /\ filterIndex' = (filterIndex + 1) % FILTER_SIZE
                        /\ \E pid \in {computePID(calculatePosition(
                                         Smoothed(Stored(leftValues, raw[1])),
                                         Smoothed(Stored(centerValues, raw[2])),
                                         Smoothed(Stored(rightValues, raw[3]))))} :
                             /\ integral' = pid.integral
                             /\ previousError' = pid.previousError
                             /\ setMotorSpeeds(
                                  constrain(s1.direction * BASE_SPEED
                                              + TruncDiv(pid.correction, 100),
                                            -PWM_MAX, PWM_MAX),
                                  constrain(s1.direction * BASE_SPEED
                                              - TruncDiv(pid.correction, 100),
                                            -PWM_MAX, PWM_MAX))
  /\ UNCHANGED <<pc, pitch, yaw, target_heading, lastPitchError, balance_integral,
                 balance_correction, heading_integral, heading_correction,
                 balancingEnabled, headingControlEnabled, baseSpeeds,
                 lastExit, rx, driftVars, serialOpen, fnVars, dashVars, testRuns>>

LineLoop == LineCycle(Scenes)

\* a line seven bytes too long for cmdBuffer
TooLongLine == Fill("x", CMD_BUFFER_SIZE + 6)

LineLines ==
  { kwForward, kwBackward, kwStop, <<"F","o","r","w","a","r","d">>, TooLongLine }

LineSend == SendLine(LineLines, SerialTerms)

InitLine == InitAdvanced

NextLine == LineSetup \/ LineSend \/ LineLoop

SpecLine == InitLine /\ [][NextLine]_vars

(* SpecSurface: the line follower over a floor that may carry no line *)

\* a line off to one side, or a floor without a line
Surfaces == {OffLine, Blank}

SurfaceLines == { kwForward, kwStop }

SurfaceSend == SendLine(SurfaceLines, SerialTerms)

SurfaceLoop == LineCycle(Surfaces)

NextSurface == LineSetup \/ SurfaceSend \/ SurfaceLoop

SpecSurface == InitLine /\ [][NextSurface]_vars

(* SpecLineBoot: the line follower from reset, on a board with a native USB port *)

InitWait ==
  pc = "wait" /\ serialOpen = FALSE /\ InitMemory /\ InitPage /\ InitNoCall

\* the host opens the port, if it ever does
HostOpens ==
  /\ pc = "wait"
  /\ ~serialOpen
  /\ serialOpen' = TRUE
  /\ UNCHANGED <<pc, rx, wire, out, dispatched, cmdBuffer, motorDir, motorPwm,
                 pitch, yaw, target_heading, lastPitchError, balance_integral,
                 balance_correction, heading_integral, heading_correction,
                 balancingEnabled, headingControlEnabled, baseSpeeds, lastExit,
                 lineVars, driftVars, testRuns, fnVars, dashVars>>

\* "while (!Serial) { ; }" in setup() of the line follower: left once the port
\* is open, and not before
LineWait ==
  /\ pc = "wait"
  /\ serialOpen
  /\ pc' = "boot"
  /\ UNCHANGED <<serialOpen, fnVars, dashVars, rx, wire, out, dispatched, cmdBuffer, motorDir,
                 motorPwm, pitch, yaw, target_heading, lastPitchError,
                 balance_integral, balance_correction, heading_integral,
                 heading_correction, balancingEnabled, headingControlEnabled,
                 baseSpeeds, lastExit, lineVars, driftVars, testRuns>>

NextLineBoot == HostOpens \/ LineWait \/ LineSetup \/ SurfaceSend \/ SurfaceLoop

\* the processor never stops executing; the host is free never to open the port
SpecLineBoot ==
  /\ InitWait
  /\ [][NextLineBoot]_vars
  /\ WF_vars(LineWait) /\ WF_vars(LineSetup) /\ WF_vars(SurfaceLoop)

(* Basic line follower (jetbot_linefollow.ino): in-place rotation on a large  *)
(* error. Position, error, integral and correction in hundredths.             *)

baseSpeed == 120
uniformThreshold == 150
filterSize == 5
setPoint == 500
\* Kp, Ki and Kd of this sketch, in hundredths
BasicKp == 200
BasicKi == 1
BasicKd == 20
\* the error above which the robot turns on the spot
SharpTurnError == 300

\* largest |integral| (hundredths) from which the model goes on
MaxBasicIntegral == 330000000
\* largest |integral| (hundredths) at which the host still sends a command
MaxCommandIntegral == 0

msgBasicReady == "Mecanum Line Follower Initialized"
msgBasicOverflow == "Error: Buffer overflow"
msgBasicUnknown == "Error: Unknown command"

\* handleCommand() of the basic follower, on a record of direction, integral,
\* out, dispatched
BasicHandleCommand(s, command) ==
  LET s0 == [s EXCEPT !.dispatched = Append(@, command)]
  IN IF strcmp0(command, kwForward)
       THEN [s0 EXCEPT !.direction = 1, !.integral = 0]
     ELSE IF strcmp0(command, kwBackward)
       THEN [s0 EXCEPT !.direction = -1, !.integral = 0]
     ELSE IF strcmp0(command, kwStop)
       THEN [s0 EXCEPT !.direction = 0]
     ELSE [s0 EXCEPT !.out = Append(@, msgBasicUnknown)]

\* processSerialInput() of the basic follower over the bytes the UART holds,
\* from the i-th on, buf being the first cmdIndex bytes of cmdBuffer
RECURSIVE BasicDrain(_, _, _, _)
BasicDrain(s, buf, bytes, i) ==
  IF i > Len(bytes) THEN [s EXCEPT !.cmdBuffer = buf]
  ELSE IF bytes[i] = LF \/ bytes[i] = CR THEN
    IF Len(buf) > 0
      THEN BasicDrain(BasicHandleCommand(s, buf), <<>>, bytes, i + 1)
      ELSE BasicDrain(s, buf, bytes, i + 1)
  ELSE IF Len(buf) < CMD_BUFFER_SIZE - 1
    THEN BasicDrain(s, buf \o SubSeq(bytes, i, i + Min2(RunLength(bytes, i, {LF, CR}),
                                     CMD_BUFFER_SIZE - 1 - Len(buf)) - 1),
         bytes, i + Min2(RunLength(bytes, i, {LF, CR}),
                         CMD_BUFFER_SIZE - 1 - Len(buf)))
    ELSE BasicDrain([s EXCEPT !.out = Append(@, msgBasicOverflow)], <<>>, bytes, i + 1)

BasicProcessSerialInput(bytes) ==
  BasicDrain([direction |-> direction, integral |-> integral, cmdBuffer |-> cmdBuffer,
              out |-> <<>>, dispatched |-> <<>>],
             cmdBuffer, bytes, 1)

\* "avg /= filterSize" of one sensor
BasicAvg(values) == TruncDiv(Sum(values, 1), filterSize)

\* "(int)correction", correction in hundredths: the fraction is dropped; the
\* conversion of a value outside the range of int is undefined
ToInt16(correction) ==
  IF InInt16(TruncDiv(correction, 100)) THEN {TruncDiv(correction, 100)}
  ELSE UndefinedInt16

\* the value n of an int expression: on overflow the wrapped value, or whatever
\* else the build makes of the undefined operation
Int16Result(n) == IF InInt16(n) THEN {n} ELSE UndefinedInt16 \cup {Wrap16(n)}

\* isUniform of loop(), on the three averages
BasicUniform(left, center, right) ==
  LET lineIsDarker == TruncDiv(left + center + right, 3) < 512
      adjLeft == IF lineIsDarker THEN 1023 - left ELSE left
      adjCenter == IF lineIsDarker THEN 1023 - center ELSE center
      adjRight == IF lineIsDarker THEN 1023 - right ELSE right
  IN Max2(adjLeft, Max2(adjCenter, adjRight))
       - Min2(adjLeft, Min2(adjCenter, adjRight)) < uniformThreshold

\* loop() from the averages on: the integral, the previous error and the two
\* speeds it may arrive at
BasicMix(dir, integral0, previousError0, left, center, right) ==
  LET lineIsDarker == TruncDiv(left + center + right, 3) < 512
      adjLeft == IF lineIsDarker THEN 1023 - left ELSE left
      adjCenter == IF lineIsDarker THEN 1023 - center ELSE center
      adjRight == IF lineIsDarker THEN 1023 - right ELSE right
      weightedSum == adjLeft * 0 + adjCenter * 500 + adjRight * 1000
      sumValues == adjLeft + adjCenter + adjRight
      position == IF sumValues # 0 THEN TruncDiv(100 * weightedSum, sumValues)
                  ELSE 100 * setPoint
      error == 100 * setPoint - position
      integral1 == integral0 + error
      derivative == error - previousError0
      correction == TruncDiv(BasicKp * error + BasicKi * integral1 + BasicKd * derivative,
                             100)
      Speeds(leftSpeed, rightSpeed) ==
        [integral |-> integral1, previousError |-> error,
         leftSpeed |-> constrain(leftSpeed, -PWM_MAX, PWM_MAX),
         rightSpeed |-> constrain(rightSpeed, -PWM_MAX, PWM_MAX)]
  IN IF BasicUniform(left, center, right) \/ dir = 0
       THEN {[integral |-> integral0, previousError |-> previousError0,
              leftSpeed |-> 0, rightSpeed |-> 0]}
     ELSE IF Abs(error) > 100 * SharpTurnError
       THEN UNION { UNION { { Speeds(leftSpeed, turnSpeed) :
                              leftSpeed \in Int16Result(-turnSpeed) } :
                            turnSpeed \in Int16Result(dir * baseSpeed + c) } :
                    c \in ToInt16(correction) }
     ELSE UNION { { Speeds(leftSpeed, rightSpeed) :
                    leftSpeed \in Int16Result(dir * baseSpeed + c),
                    rightSpeed \in Int16Result(dir * baseSpeed - c) } :
                  c \in ToInt16(correction) }

\* setMotorSpeed() for the four wheels: FL, FR, RL, RR
BasicApply(leftSpeed, rightSpeed) ==
  /\ motorDir' = Str4(leftSpeed >= 0, rightSpeed >= 0, leftSpeed >= 0, rightSpeed >= 0)
  /\ motorPwm' = Str4(constrain(Abs(leftSpeed), 0, PWM_MAX),
                       constrain(Abs(rightSpeed), 0, PWM_MAX),
                       constrain(Abs(leftSpeed), 0, PWM_MAX),
                       constrain(Abs(rightSpeed), 0, PWM_MAX))

\* the line well to one side: the error is above SharpTurnError, or just below
SharpLine == Str4(0, 511, 1023, 0)
SideLine == Str4(0, 323, 1023, 0)

\* the sample stored in the cycle before
LastSample ==
  Str4(leftValues[((filterIndex + filterSize - 1) % filterSize) + 1],
       centerValues[((filterIndex + filterSize - 1) % filterSize) + 1],
       rightValues[((filterIndex + filterSize - 1) % filterSize) + 1], 0)

\* what the sensors read: the robot is put down over either line and stays
\* where it is (it is held, or its wheels are blocked), so that the reading of
\* the cycle before comes again
Floor == IF LastSample = Zeros THEN {SharpLine, SideLine} ELSE {LastSample}

\* setup() of the basic follower: the pins are made outputs, none is written
BasicSetup ==
  /\ pc = "boot"
  /\ serialOpen
  /\ pc' = "run"
  /\ out' = <<msgBasicReady>>
  /\ UNCHANGED <<pitch, yaw, target_heading, lastPitchError, balance_integral,
                 balance_correction, heading_integral, heading_correction,
                 balancingEnabled, headingControlEnabled, baseSpeeds, cmdBuffer,
                 motorDir, motorPwm, lastExit, rx, wire, dispatched, lineVars,
                 driftVars, serialOpen, fnVars, dashVars, testRuns>>

\* loop() of the basic follower
BasicLoop ==
  /\ pc = "run"
  /\ \E k \in Bursts :
       /\ wire' = SubSeq(wire, k + 1, Len(wire))
       /\ \E s1 \in {BasicProcessSerialInput(SubSeq(wire, 1, k))} :
            /\ cmdBuffer' = s1.cmdBuffer
            /\ out' = s1.out
            /\ dispatched' = s1.dispatched
            /\ direction' = s1.direction
            /\ \E raw \in Floor :
                 /\ leftValues' = Stored(leftValues, raw[1])
                 /\ centerValues' = Stored(centerValues, raw[2])
                 /\ rightValues' = Stored(rightValues, raw[3])
                 /\ filterIndex' = (filterIndex + 1) % filterSize
                 /\ \E m \in BasicMix(s1.direction, s1.integral, previousError,
                                      BasicAvg(Stored(leftValues, raw[1])),
                                      BasicAvg(Stored(centerValues, raw[2])),
                                      BasicAvg(Stored(rightValues, raw[3]))) :
                      /\ Abs(m.integral) <= MaxBasicIntegral
                      /\ integral' = m.integral
                      /\ previousError' = m.previousError
                      /\ BasicApply(m.leftSpeed, m.rightSpeed)
  /\ UNCHANGED <<pc, pitch, yaw, target_heading, lastPitchError, balance_integral,
                 balance_correction, heading_integral, heading_correction,
                 balancingEnabled, headingControlEnabled, baseSpeeds,
                 lastExit, rx, driftVars, serialOpen, fnVars, dashVars, testRuns>>

BasicLines == { kwForward, kwStop }

\* the host sends its commands while the run is young
BasicSend == Abs(integral) <= MaxCommandIntegral /\ SendLine(BasicLines, SerialTerms)

NextBasic == BasicSetup \/ BasicSend \/ BasicLoop

SpecBasic == InitAdvanced /\ [][NextBasic]_vars

(* SpecPosition: calculatePosition() applied to three smoothed readings *)

\* readings of the 10-bit converter: the ends of the range, the middle, where
\* the polarity of the line is decided, and values in between
ReadingGrid == {0, 1, 300, 510, 511, 512, 513, 723, 1022, 1023}

InitPosition ==
  /\ pc = "boot" /\ serialOpen = TRUE /\ InitMemory /\ InitPage
  /\ readings \in ReadingGrid \X ReadingGrid \X ReadingGrid
  /\ linePosition = -1

\* "float position = calculatePosition(leftSmoothed, centerSmoothed, rightSmoothed)"
Locate ==
  /\ linePosition = -1
  /\ linePosition' = calculatePosition(readings[1], readings[2], readings[3])
  /\ UNCHANGED <<readings, sketchVars, dashVars>>

NextPosition == Locate

SpecPosition == InitPosition /\ [][NextPosition]_vars

---------------------------------------------------------------------------
(* Dashboard script (mecanum_control.js): the handlers of the page.          *)
(* A payload is the tuple of its property values: <<action>> for a button,   *)
(* <<action, vx, vy, omega>> for move and stop. The operators act on a       *)
(* record s of the script's variables.                                       *)

GAMEPAD_AXIS_THRESHOLD == 15    \* hundredths of the stick's travel

Null == "null"

StopPayload == <<"stop", 0, 0, 0>>

MovePayload(vx, vy, omega) == <<"move", vx, vy, omega>>

\* JSON.stringify(payload)
Stringify(payload) ==
  IF Len(payload) = 1 THEN "{\"action\":\"" \o payload[1] \o "\"}"
  ELSE "{\"action\":\"" \o payload[1] \o "\",\"vx\":" \o ToString(payload[2])
       \o ",\"vy\":" \o ToString(payload[3])
       \o ",\"omega\":" \o ToString(payload[4]) \o "}"

\* the script's variables when the handler of `event` starts
Page(event) ==
  [isSerialConnected |-> isSerialConnected, socketConnected |-> socketConnected,
   lastGamepadCommandKey |-> lastGamepadCommandKey,
   lastKeyboardCommandKey |-> lastKeyboardCommandKey,
   gamepad |-> gamepad, keysPressed |-> keysPressed,
   controlsEnabled |-> controlsEnabled,
   handled |-> [handled EXCEPT !.event = event, !.emitted = <<>>]]

CommitPage(s) ==
  /\ isSerialConnected' = s.isSerialConnected
  /\ socketConnected' = s.socketConnected
  /\ lastGamepadCommandKey' = s.lastGamepadCommandKey
  /\ lastKeyboardCommandKey' = s.lastKeyboardCommandKey
  /\ gamepad' = s.gamepad
  /\ keysPressed' = s.keysPressed
  /\ controlsEnabled' = s.controlsEnabled
  /\ handled' = s.handled
  /\ UNCHANGED <<sketchVarsButPc, fnVars>>

\* socket.emit('mecanum_control_command', payload)
Emit(s, payload) ==
  [s EXCEPT !.handled.emitted = Append(@, payload), !.handled.lastEmitted = payload]

\* enableDisableControls(isEnabled): the stop button is never disabled
enableDisableControls(s, isEnabled) == [s EXCEPT !.controlsEnabled = isEnabled]

\* sendControlCommand() that blocks a stop like any other command
sendControlCommandStrict(s, payload) ==
  LET commandKey == Stringify(payload)
  IN IF ~s.isSerialConnected THEN s
     ELSE IF ~s.socketConnected THEN s
     ELSE IF payload[1] = "move" THEN
       IF s.gamepad /\ commandKey = s.lastGamepadCommandKey THEN s
       ELSE IF ~s.gamepad /\ commandKey = s.lastKeyboardCommandKey THEN s
       ELSE Emit([s EXCEPT
                    !.lastGamepadCommandKey = IF s.gamepad THEN commandKey ELSE Null,
                    !.lastKeyboardCommandKey = IF ~s.gamepad THEN commandKey ELSE Null],
                 payload)
     ELSE IF payload[1] = "stop" THEN
       IF s.lastGamepadCommandKey = commandKey \/ s.lastKeyboardCommandKey = commandKey
         THEN s
         ELSE Emit([s EXCEPT !.lastGamepadCommandKey = commandKey,
                             !.lastKeyboardCommandKey = commandKey], payload)
     ELSE Emit([s EXCEPT !.lastGamepadCommandKey = Null,
                         !.lastKeyboardCommandKey = Null], payload)

\* sendControlCommand(payload)
sendControlCommand(s, payload) ==
  LET commandKey == Stringify(payload)
  IN IF ~s.isSerialConnected /\ payload[1] # "stop" THEN s
     ELSE IF ~s.socketConnected /\ payload[1] # "stop" THEN s
     ELSE IF payload[1] = "move" THEN
       IF s.gamepad /\ commandKey = s.lastGamepadCommandKey THEN s
       ELSE IF ~s.gamepad /\ commandKey = s.lastKeyboardCommandKey THEN s
       ELSE Emit([s EXCEPT
                    !.lastGamepadCommandKey = IF s.gamepad THEN commandKey ELSE Null,
                    !.lastKeyboardCommandKey = IF ~s.gamepad THEN commandKey ELSE Null],
                 payload)
     ELSE IF payload[1] = "stop" THEN
       IF s.lastGamepadCommandKey = commandKey \/ s.lastKeyboardCommandKey = commandKey
         THEN s
         ELSE Emit([s EXCEPT !.lastGamepadCommandKey = commandKey,
                             !.lastKeyboardCommandKey = commandKey], payload)
     ELSE Emit([s EXCEPT !.lastGamepadCommandKey = Null,
                         !.lastKeyboardCommandKey = Null], payload)

\* stopMovement()
stopMovement(s) ==
  [sendControlCommand(s, StopPayload) EXCEPT
     !.keysPressed = {},
     !.lastGamepadCommandKey = Stringify(StopPayload),
     !.lastKeyboardCommandKey = Stringify(StopPayload)]

\* handlePress of the button with data-action = action
handlePress(s, action) ==
  IF ~s.isSerialConnected /\ action # "stop" THEN s
  ELSE IF action = "stop" THEN stopMovement(s)
  ELSE sendControlCommand(s, <<action>>)

\* handleRelease of the button with data-action = action
handleRelease(s, action) == IF action # "stop" THEN stopMovement(s) ELSE s

\* handleKeyboardControl()
handleKeyboardControl(s) ==
  IF ~s.isSerialConnected THEN s
  ELSE LET vx == (IF "w" \in s.keysPressed THEN PWM_MAX ELSE 0)
                 - (IF "s" \in s.keysPressed THEN PWM_MAX ELSE 0)
           vy == (IF "a" \in s.keysPressed THEN PWM_MAX ELSE 0)
                 - (IF "d" \in s.keysPressed THEN PWM_MAX ELSE 0)
           omega == (IF "q" \in s.keysPressed THEN PWM_MAX ELSE 0)
                    - (IF "e" \in s.keysPressed THEN PWM_MAX ELSE 0)
       IN IF vx # 0 \/ vy # 0 \/ omega # 0
            THEN sendControlCommand(s, MovePayload(vx, vy, omega))
            ELSE stopMovement(s)

MovementKeys == {"w", "a", "s", "d", "q", "e"}

\* the keydown listener
onKeyDown(s, key) ==
  IF key = " " THEN stopMovement(s)
  ELSE IF key \in MovementKeys /\ key \notin s.keysPressed THEN
    Only({ IF ~s1.gamepad /\ s1.isSerialConnected THEN handleKeyboardControl(s1) ELSE s1 :
           s1 \in {[s EXCEPT !.keysPressed = @ \cup {key}]} })
  ELSE s

\* the keyup listener
onKeyUp(s, key) ==
  IF key \in MovementKeys /\ key \in s.keysPressed THEN
    Only({ IF ~s1.gamepad /\ s1.isSerialConnected THEN handleKeyboardControl(s1) ELSE s1 :
           s1 \in {[s EXCEPT !.keysPressed = @ \ {key}]} })
  ELSE s

\* handleGamepadInput() with the left stick at leftStickY (hundredths)
handleGamepadInput(s, leftStickY) ==
  IF ~s.isSerialConnected \/ ~s.gamepad THEN s
  ELSE sendControlCommand(s,
         MovePayload(IF Abs(leftStickY) > GAMEPAD_AXIS_THRESHOLD
                       THEN TruncDiv(-leftStickY * PWM_MAX, 100) ELSE 0, 0, 0))

\* startGamepadPolling(), the gamepad having been stored
startGamepadPolling(s) ==
  Only({ IF s1.isSerialConnected THEN stopMovement(s1) ELSE s1 :
         s1 \in {[s EXCEPT !.keysPressed = {}]} })

\* stopGamepadPolling()
stopGamepadPolling(s) ==
  [(IF s.isSerialConnected THEN stopMovement(s) ELSE s) EXCEPT !.gamepad = FALSE]

(* SpecDashboard: the page from DOMContentLoaded on *)

\* what the operator and the browser may do
Buttons == {"stop", "forward", "rotate_left"}
HeldKeys == {"w", "s", " "}
StickPositions == {0, -100}
Statuses == {"Connected", "Disconnected", "Error"}

InitDashboard ==
  pc = "loading" /\ serialOpen = TRUE /\ InitMemory /\ InitPage /\ InitNoCall

\* initialLoadConfig() once the fetch has settled: with the status the server
\* reports, or with an error
InitialLoad ==
  /\ pc = "loading"
  /\ pc' = "loaded"
  /\ \E result \in Statuses \cup {"failed"} :
       \E s \in {Page(<<"get_config", result>>)} :
         IF result = "failed"
           THEN CommitPage(enableDisableControls(s, FALSE))
           ELSE CommitPage(enableDisableControls(
                  [s EXCEPT !.isSerialConnected = (result = "Connected"),
                            !.handled.confirmed = (result = "Connected")],
                  result = "Connected"))

\* socket.on('connect'): the handler shows a message
SocketConnect ==
  /\ ~socketConnected
  /\ CommitPage([Page(<<"connect", "">>) EXCEPT !.socketConnected = TRUE])
  /\ UNCHANGED pc

\* socket.on('disconnect') and socket.on('connect_error'): the argument
\* "config?.serial_port" of updateSerialStatusUI names a variable that no scope
\* of the page declares, so its evaluation throws a ReferenceError and the
\* two statements after the call are not executed
SocketDown ==
  /\ \E event \in {"disconnect", "connect_error"} :
       /\ event = "disconnect" => socketConnected
       /\ event = "connect_error" => ~socketConnected
       /\ CommitPage([Page(<<event, "">>) EXCEPT !.socketConnected = FALSE,
                                                 !.handled.confirmed = FALSE])
  /\ UNCHANGED pc

\* socket.on('mecanum_serial_status')
SerialStatus ==
  /\ socketConnected
  /\ \E status \in Statuses :
       CommitPage(enableDisableControls(
         [Page(<<"mecanum_serial_status", status>>) EXCEPT
            !.isSerialConnected = (status = "Connected"),
            !.handled.confirmed = (status = "Connected")],
         status = "Connected"))
  /\ UNCHANGED pc

\* mousedown or touchstart on a control button
Press ==
  /\ \E action \in Buttons : CommitPage(handlePress(Page(<<"mousedown", action>>), action))
  /\ UNCHANGED pc

\* mouseup, touchend or touchcancel on a control button
Release ==
  /\ \E action \in Buttons : CommitPage(handleRelease(Page(<<"mouseup", action>>), action))
  /\ UNCHANGED pc

KeyDown ==
  /\ \E key \in HeldKeys : CommitPage(onKeyDown(Page(<<"keydown", key>>), key))
  /\ UNCHANGED pc

KeyUp ==
  /\ \E key \in HeldKeys : CommitPage(onKeyUp(Page(<<"keyup", key>>), key))
  /\ UNCHANGED pc

\* the gamepadconnected listener
GamepadConnected ==
  /\ ~gamepad
  /\ CommitPage(startGamepadPolling([Page(<<"gamepadconnected", "">>) EXCEPT !.gamepad = TRUE]))
  /\ UNCHANGED pc

\* the gamepaddisconnected listener, for the gamepad in use
GamepadDisconnected ==
  /\ gamepad
  /\ CommitPage(stopGamepadPolling(Page(<<"gamepaddisconnected", "">>)))
  /\ UNCHANGED pc

\* one tick of the polling interval, the gamepad still being there
GamepadPoll ==
  /\ gamepad
  /\ \E leftStickY \in StickPositions :
       CommitPage(handleGamepadInput(Page(<<"poll", ToString(leftStickY)>>), leftStickY))
  /\ UNCHANGED pc

NextDashboard ==
  \/ InitialLoad \/ SocketConnect \/ SocketDown \/ SerialStatus
  \/ Press \/ Release \/ KeyDown \/ KeyUp
  \/ GamepadConnected \/ GamepadDisconnected \/ GamepadPoll

SpecDashboard == InitDashboard /\ [][NextDashboard]_vars

---------------------------------------------------------------------------
(* Drift-correction controller (v2.1): bare speed lines, straight-drive mode *)
(* The operators below act on a record s of the globals a handler touches:  *)
(* yawAngle, baseMotorSpeeds, pidController, state, motorDir, motorPwm,     *)
(* cmdBuffer, out, dispatched. motors[i].speed is the signed value of       *)
(* motorDir[i] and motorPwm[i]; setMotorSpeed() and stopAllMotors() of this *)
(* sketch do what setMotor and stopMotors above do.                         *)

DEBUG_LEVEL == 1
MAX_CORRECTION == 50
\* thousandths of a degree per second
YAW_RATE_THRESHOLD == 500
\* gains in thousandths
pid_kp == 500
pid_ki == 20
pid_kd == 100
\* degree-seconds
pid_maxIntegral == 20
\* LSB of the gyro per degree per second
GyroScale == 131

\* largest |yawAngle| (thousandths of a degree) and largest |integral|
\* (millidegree-ms) from which the model goes on
MaxYawAngle == 1200
MaxDriftIntegral == 1200
\* milliseconds between two calls of getDeltaTime(): from one loop() to the
\* next (the loop has no delay), and from updateIMUData() to the PID
DtLoop == 2
DtToPid == 1

\* the variables of the other controllers
otherVars == <<pitch, yaw, target_heading, lastPitchError, balance_integral,
               balance_correction, heading_integral, heading_correction,
               balancingEnabled, headingControlEnabled, baseSpeeds, lastExit,
               lineVars, testRuns, serialOpen, fnVars, dashVars>>

\* sendStatusMessage(message, level)
sendStatusMessage(s, message, level) ==
  IF DEBUG_LEVEL >= level THEN [s EXCEPT !.out = Append(@, message)] ELSE s

\* checkSpeeds() comparing the two left wheels only
checkSpeedsLeftOnly(speeds) ==
  [allEqual |-> speeds[3] = speeds[1],
   allZero |-> \A i \in Motors : speeds[i] = 0]

\* checkSpeeds(speeds, allEqual, allZero)
checkSpeeds(speeds) ==
  [allEqual |-> \A i \in Motors : speeds[i] = speeds[1],
   allZero |-> \A i \in Motors : speeds[i] = 0]

\* parseMotorCommand(cmd, speeds): sscanf(cmd, "%d,%d,%d,%d", ...) == 4
parseMotorCommand(cmd) ==
  LET a == ScanInt(cmd, 1)
      b == ScanInt(cmd, a.next + 1)
      c == ScanInt(cmd, b.next + 1)
      d == ScanInt(cmd, c.next + 1)
      comma(i) == i <= Len(cmd) /\ cmd[i] = ","
  IN [ok |-> /\ a.ok /\ comma(a.next) /\ b.ok /\ comma(b.next)
             /\ c.ok /\ comma(c.next) /\ d.ok,
      speeds |-> Str4(Wrap16(a.val), Wrap16(b.val), Wrap16(c.val), Wrap16(d.val))]

\* the terminator branch of processSerialCommands() with cmdIndex > 0
DriftDispatch(s, line) ==
  LET r == parseMotorCommand(line)
      chk == checkSpeeds(r.speeds)
      s0 == [s EXCEPT !.dispatched = Append(@, line)]
  IN IF ~r.ok THEN sendStatusMessage(s0, "Error: Invalid command format", 1)
     ELSE IF chk.allZero THEN
       sendStatusMessage(
         stopMotors([s0 EXCEPT !.state.straightDriveActive = FALSE]),
         "Motors stopped", 1)
     ELSE IF chk.allEqual THEN
       sendStatusMessage(
         [setAllMotors([s0 EXCEPT !.yawAngle = 0,
                                  !.pidController = [integral |-> 0, lastError |-> 0],
                                  !.baseMotorSpeeds = r.speeds],
                       r.speeds)
            EXCEPT !.state.straightDriveActive = TRUE],
         "Straight-drive mode activated", 1)
     ELSE
       sendStatusMessage(
         setAllMotors([s0 EXCEPT !.state.straightDriveActive = FALSE], r.speeds),
         "Normal drive command executed", 2)

\* processSerialCommands(): "while (Serial.available() > 0)" over the bytes the
\* UART holds, from the i-th on, buf being the first cmdIndex bytes of cmdBuffer
RECURSIVE DriftDrain(_, _, _, _)
DriftDrain(s, buf, bytes, i) ==
  IF i > Len(bytes) THEN [s EXCEPT !.cmdBuffer = buf]
  ELSE IF bytes[i] = LF \/ bytes[i] = CR THEN
    IF Len(buf) > 0
      THEN DriftDrain(Only({DriftDispatch(s, b) : b \in {buf}}), <<>>, bytes, i + 1)
      ELSE DriftDrain(s, buf, bytes, i + 1)
  ELSE IF Len(buf) < CMD_BUFFER_SIZE - 1
    THEN DriftDrain(s, buf \o SubSeq(bytes, i, i + Min2(RunLength(bytes, i, {LF, CR}),
                                    CMD_BUFFER_SIZE - 1 - Len(buf)) - 1),
         bytes, i + Min2(RunLength(bytes, i, {LF, CR}),
                         CMD_BUFFER_SIZE - 1 - Len(buf)))
    ELSE DriftDrain(sendStatusMessage(s, "Error: Command buffer overflow", 1),
                    <<>>, bytes, i + 1)

\* updateIMUData() on the gyro reading gz, dt milliseconds after the last call
\* of getDeltaTime()
updateIMUData(s, gz, dt) ==
  IF ~s.state.mpuInitialized \/ dt < 1 THEN s
  ELSE LET rate == TruncDiv(1000 * gz, GyroScale)
           yawRate == IF Abs(rate) < YAW_RATE_THRESHOLD THEN 0 ELSE rate
           y1 == s.yawAngle + TruncDiv(yawRate * dt, 1000)
           y2 == IF y1 > 180000 THEN y1 - 360000 ELSE y1
       IN [s EXCEPT !.yawAngle = IF y2 < -180000 THEN y2 + 360000 ELSE y2]

\* calculatePIDCorrection(currentValue), dt milliseconds after the last call of
\* getDeltaTime(): the new controller state and the correction in thousandths
calculatePIDCorrection(pid, currentValue, dt) ==
  LET error == 0 - currentValue
      deltaTime == IF dt < 1 THEN 1 ELSE dt
      integral1 == constrain(pid.integral + error * deltaTime,
                             -(1000000 * pid_maxIntegral), 1000000 * pid_maxIntegral)
      derivative == TruncDiv(pid_kd * (error - pid.lastError), deltaTime)
      correction == TruncDiv(pid_kp * error, 1000)
                      + TruncDiv(pid_ki * integral1, 1000000) + derivative
  IN [pid |-> [integral |-> integral1, lastError |-> error],
      correction |-> constrain(correction, -(1000 * MAX_CORRECTION),
                               1000 * MAX_CORRECTION)]

\* applyStraightLineDriftCorrection(): the states it may leave, the int16_t
\* correctedSpeeds[] being base -+ correction
applyStraightLineDriftCorrection(s, dt) ==
  LET r == calculatePIDCorrection(s.pidController, s.yawAngle, dt)
      sl == IF s.baseMotorSpeeds[1] > 0 THEN -1 ELSE 1
      corr == Finite(r.correction)
      s1 == [s EXCEPT !.pidController = r.pid]
  IN {setAllMotors(s1, Str4(fl, fr, rl, rr)) :
        fl \in MixedSpeed(s.baseMotorSpeeds[1], sl, corr, 0, Finite(0)),
        fr \in MixedSpeed(s.baseMotorSpeeds[2], -sl, corr, 0, Finite(0)),
        rl \in MixedSpeed(s.baseMotorSpeeds[3], sl, corr, 0, Finite(0)),
        rr \in MixedSpeed(s.baseMotorSpeeds[4], -sl, corr, 0, Finite(0))}

DriftGlobals ==
  [yawAngle |-> yawAngle, baseMotorSpeeds |-> baseMotorSpeeds,
   pidController |-> pidController, state |-> state,
   motorDir |-> motorDir, motorPwm |-> motorPwm, cmdBuffer |-> cmdBuffer,
   out |-> <<>>, dispatched |-> <<>>]

DriftCommit(s) ==
  /\ yawAngle' = s.yawAngle
  /\ baseMotorSpeeds' = s.baseMotorSpeeds
  /\ pidController' = s.pidController
  /\ state' = s.state
  /\ motorDir' = s.motorDir
  /\ motorPwm' = s.motorPwm
  /\ cmdBuffer' = s.cmdBuffer
  /\ out' = s.out
  /\ dispatched' = s.dispatched

\* setup() that takes the MPU6050 for initialized whatever initializeMPU() returns
DriftSetupOptimistic ==
  /\ pc = "boot"
  /\ pc' = "run"
  /\ \E failed \in 0..3 :
       \E s1 \in {[stopMotors(DriftGlobals)
                     EXCEPT !.out = [i \in 1..failed |->
                                       "MPU6050 connection failed, retrying..."],
                            !.state.mpuInitialized = TRUE]} :
         \E s2 \in {sendStatusMessage(s1, "MPU6050 initialized successfully", 1)} :
           DriftCommit(sendStatusMessage(s2, "Mecanum controller initialized", 1))
  /\ UNCHANGED <<rx, wire, otherVars>>

\* setup(): initializeMotors(), then initializeMPU() with its three attempts, of
\* which the first `failed` find no MPU6050
DriftSetup ==
  /\ pc = "boot"
  /\ pc' = "run"
  /\ \E failed \in 0..3 :
       \E s1 \in {[stopMotors(DriftGlobals)
                     EXCEPT !.out = [i \in 1..failed |->
                                       "MPU6050 connection failed, retrying..."],
                            !.state.mpuInitialized = (failed < 3)]} :
         \E s2 \in {sendStatusMessage(s1,
                      IF failed < 3 THEN "MPU6050 initialized successfully"
                      ELSE "WARNING: MPU6050 initialization failed", 1)} :
           DriftCommit(sendStatusMessage(s2, "Mecanum controller initialized", 1))
  /\ UNCHANGED <<rx, wire, otherVars>>

\* lines the host sends to the drift controller
DriftLines ==
  { BareLine(100, 100, 100, 100),
    BareLine(-80, -80, -80, -80),
    BareLine(100, 50, 100, 50),
    BareLine(0, 0, 0, 0),
    Join(<<Num(1), Num(2), Num(3)>>),
    <<"g","o">> }

\* raw z-axis gyro readings: at rest, noise below the threshold, turning
GyroReadings == {0, 40, 32750, -32750}

\* loop(): processSerialCommands(), then, with an MPU6050, updateIMUData() and,
\* in straight-drive mode, applyStraightLineDriftCorrection()
DriftLoop ==
  /\ pc = "run"
  /\ Abs(yawAngle) <= MaxYawAngle
  /\ Abs(pidController.integral) <= MaxDriftIntegral
  /\ \E arrived \in WholeLines(DriftLines, {<<LF>>}) :
       \E s1 \in {DriftDrain(DriftGlobals, cmdBuffer, rx \o arrived, 1)} :
         IF ~s1.state.mpuInitialized THEN DriftCommit(s1)
         ELSE \E gz \in GyroReadings, dt \in {0, DtLoop} :
                \E s2 \in {updateIMUData(s1, gz, dt)} :
                  IF ~s2.state.straightDriveActive THEN DriftCommit(s2)
                  ELSE \E dt2 \in {0, DtToPid} :
                         \E s3 \in applyStraightLineDriftCorrection(s2, dt2) :
                           DriftCommit(s3)
  /\ rx' = <<>>
  /\ UNCHANGED <<pc, wire, otherVars>>

NextDrift == DriftSetup \/ DriftLoop

SpecDrift == InitAdvanced /\ [][NextDrift]_vars

---------------------------------------------------------------------------
(* What a run shows of the last iteration of loop() *)

\* the status channel carried msg in the last iteration
Said(msg) == \E i \in DOMAIN out : out[i] = msg

\* the line the dispatcher was last handed in the last iteration
LastLine == IF dispatched = <<>> THEN <<>> ELSE dispatched[Len(dispatched)]

\* the value tokens of a line in the MOVE form, <<>> for any other line
MoveArgs(line) ==
  LET toks == Tokens(line)
  IN IF toks # <<>> /\ strcasecmp0(toks[1], kwMOVE) THEN Tail(toks) ELSE <<>>

\* the token is entirely a signed decimal integer
IsDecimal(tok) ==
  /\ tok # <<>>
  /\ ~IsSpace(tok[1])
  /\ strtol(tok).end = Len(tok) + 1

\* the last line dispatched was a MOVE command
MoveDispatched == dispatched # <<>> /\ MoveArgs(LastLine) # <<>>

---------------------------------------------------------------------------
(* Claims on the advanced controller *)

\* C1: in every cycle whose fused tilt exceeds TIP_OVER_THRESHOLD in magnitude,
\* balancing enabled or not, all four wheel magnitudes are 0 at the end of the
\* cycle.
C1_TiltedWheelsStopped ==
  (pc = "run" /\ Abs(pitch) > TIP_OVER_THRESHOLD) => motorPwm = Zeros

\* C2: in a cycle in which the tip-over condition fires, balancingEnabled and
\* headingControlEnabled are both false at the end of the cycle.
C2_TripClearsFlags ==
  Said(msgTipOver) => (~balancingEnabled /\ ~headingControlEnabled)

\* C3: after STOP is dispatched by parseCommand, the four base speeds are 0 and
\* both mode flags are disabled.
C3_StopZeroesBaseSpeeds ==
  (dispatched # <<>> /\ strcasecmp0(LastLine, kwSTOP))
    => (baseSpeeds = Zeros /\ ~balancingEnabled /\ ~headingControlEnabled)

\* C4: in a cycle in which a STOP command is processed, or in which the
\* tip-over stop is taken, the four wheel outputs at the end of the cycle are
\* all zero.
C4_StopCycleWheelsZero ==
  (Said(msgStop) \/ Said(msgTipOver)) => motorPwm = Zeros

\* C5: a movement command rejected as a parse failure leaves the four base
\* speeds as they were before the line was dispatched.
C5_RejectedMoveKeepsBaseSpeeds ==
  [][(MoveDispatched /\ Said(msgInvalid))' => baseSpeeds' = baseSpeeds]_vars

\* C6: after a MOVE command whose four value tokens are decimal integers of
\* any magnitude, the base speeds are the parsed values clamped to
\* [-PWM_MAX, PWM_MAX].
C6_BaseSpeedsClamped ==
  (/\ dispatched # <<>>
   /\ Len(MoveArgs(LastLine)) = NUM_MOTORS
   /\ \A i \in Motors : IsDecimal(MoveArgs(LastLine)[i]))
    => \A i \in Motors :
         baseSpeeds[i] = constrain(strtol(MoveArgs(LastLine)[i]).val,
                                   -PWM_MAX, PWM_MAX)

\* C7: a movement command with a value token that is not entirely a signed
\* decimal integer is rejected and an error is reported.
C7_NonNumericTokenRejected ==
  (/\ MoveDispatched
   /\ \E i \in 1..Len(MoveArgs(LastLine)) :
        i <= NUM_MOTORS /\ ~IsDecimal(MoveArgs(LastLine)[i]))
    => Said(msgInvalid)

\* part is a run of consecutive bytes of line
IsPartOf(part, line) ==
  \E a \in 1..Len(line) : \E b \in a..Len(line) : SubSeq(line, a, b) = part

\* C10: no part of a line that overflowed the command buffer is handed to the
\* command dispatcher, however its bytes are split across cycles.
C10_OverflowedLineNotDispatched ==
  \A i \in DOMAIN dispatched : ~IsPartOf(dispatched[i], OverLongLine)

---------------------------------------------------------------------------
(* Claims on the extended controller *)

\* the value tokens of a line in the bare form
BareArgs(line) == Tokens(line)

\* the last line handed to handleCommand was a movement command in the bare
\* form: its tokens are all signed decimal integers
BareDispatched ==
  /\ dispatched # <<>>
  /\ BareArgs(LastLine) # <<>>
  /\ \A i \in DOMAIN BareArgs(LastLine) : IsDecimal(BareArgs(LastLine)[i])

\* C8: a movement command whose number of value tokens is not exactly four is
\* rejected as a parse failure and an error is reported.
C8_WrongTokenCountRejected ==
  (BareDispatched /\ Len(BareArgs(LastLine)) # NUM_MOTORS)
    => Said(msgExtSpeedFailed)

---------------------------------------------------------------------------
(* Claims on the line assembly of every variant *)

\* the handler has just read a non-terminator byte while the line buffer held
\* CMD_BUFFER_SIZE - 1 bytes: the buffer was full when the handler started and
\* the first byte it took from the link is not a terminator
ByteArrivesAtFullBuffer ==
  /\ Len(cmdBuffer) = CMD_BUFFER_SIZE - 1
  /\ Len(wire') < Len(wire)
  /\ wire[1] \notin {LF, CR, BS, DEL}

\* C9: whenever a non-terminator byte arrives while the line buffer holds
\* CMD_BUFFER_SIZE - 1 bytes, an overflow error is reported on the status
\* channel.
C9_OverflowReported ==
  [][ByteArrivesAtFullBuffer
       => (Said(msgOverflow) \/ Said(msgExtOverflow))']_vars

---------------------------------------------------------------------------
(* Claims on the cycle of the advanced controller *)

\* C12: a complete command line buffered at the start of a cycle is dispatched
\* in that cycle, also in a cycle in which the tilt exceeds the tip-over
\* threshold: no terminated line is left in the receive queue when the cycle
\* ends.
C12_BufferedLineDispatched ==
  \A i \in DOMAIN rx : rx[i] \notin {LF, CR}

\* C14: every division by dt in the balance and heading loops has dt > 0, so
\* every correction the loops compute is a finite number.
C14_NoDivisionByZeroDt ==
  balance_correction.finite /\ heading_correction.finite

\* a byte stream cut at its terminators, from the byte at `from` on: the
\* non-empty lines it completes, in order, and the bytes after the last
\* terminator
RECURSIVE CutLines(_, _)
CutLines(stream, from) ==
  LET T == {i \in from..Len(stream) : stream[i] \in {LF, CR}}
  IN IF T = {} THEN [lines |-> <<>>, rest |-> SubSeq(stream, from, Len(stream))]
     ELSE LET t == CHOOSE i \in T : \A j \in T : i <= j
              next == CutLines(stream, t + 1)
          IN [lines |-> (IF t = from THEN <<>>
                         ELSE <<SubSeq(stream, from, t - 1)>>) \o next.lines,
              rest |-> next.rest]

\* the bytes the last iteration took from the link, behind the partial line
\* the buffer held
StreamTaken == cmdBuffer \o SubSeq(wire, 1, Len(wire) - Len(wire'))

\* every line of the cut, and what is left, is shorter than the buffer
AllShort(cut) ==
  /\ \A i \in DOMAIN cut.lines : Len(cut.lines[i]) < CMD_BUFFER_SIZE
  /\ Len(cut.rest) < CMD_BUFFER_SIZE

\* C13: every non-empty line shorter than the buffer is dispatched exactly
\* once, with exactly its bytes, however its bytes are split across cycles; an
\* empty line dispatches nothing.  In every iteration the lines dispatched are
\* the non-empty lines completed by the retained partial line followed by the
\* new bytes, and the bytes after the last terminator are retained.
C13_LinesDispatchedOnce ==
  [][(pc = "run" /\ Len(wire') <= Len(wire)
        /\ AllShort(CutLines(StreamTaken, 1)))
       => /\ dispatched' = CutLines(StreamTaken, 1).lines
          /\ cmdBuffer' = CutLines(StreamTaken, 1).rest]_vars

\* a line was dispatched at the CR of a CR LF terminator, the LF still to come
C13_DispatchedAtCR == dispatched = <<kwSTOP>> /\ wire = <<LF>>

---------------------------------------------------------------------------
(* Claims on the mixer and the control loops *)

\* the signed command a wheel runs on: the PWM magnitude with the direction pin
WheelCommand(i) == IF motorDir[i] THEN motorPwm[i] ELSE -motorPwm[i]

\* C15: every PWM magnitude written to a wheel is in 0..255 and every signed
\* wheel command is in -255..255, whatever commands were received.
C15_WheelCommandsInRange ==
  \A i \in Motors :
    /\ motorPwm[i] \in 0..PWM_MAX
    /\ WheelCommand(i) \in -PWM_MAX..PWM_MAX

\* a base speed beyond the PWM range was mixed and the wheel runs at the maximum
C15_SaturatedWheel ==
  /\ baseSpeeds[1] = 300
  /\ motorPwm[1] = PWM_MAX
  /\ motorDir[1]

\* the wheel command the mixing rule gives wheel i, "base -+ bal +- head" cut to
\* whole numbers and clamped to the PWM range; sb and sh are the signs of the
\* two corrections for the wheel
MixSignBalance == Str4(-1, -1, 1, 1)
MixSignHeading == Str4(1, -1, 1, -1)
MixedCommand(i) ==
  constrain(TruncDiv(1000 * baseSpeeds[i]
                       + MixSignBalance[i] * balance_correction.milli
                       + MixSignHeading[i] * heading_correction.milli, 1000),
            -PWM_MAX, PWM_MAX)

\* C16: at the end of every iteration that reached the mixer, each wheel runs on
\* its own base speed minus/plus the balance correction plus/minus the heading
\* correction, clamped to -255..255 on its own.
C16_MixerRule ==
  (pc = "run" /\ lastExit = "delay"
     /\ balance_correction.finite /\ heading_correction.finite)
    => \A i \in Motors : WheelCommand(i) = MixedCommand(i)

\* C17: at the end of every iteration that reached the mixer, a loop whose
\* enable flag is false has contributed a correction of exactly 0 to the wheels.
C17_DisabledLoopContributesZero ==
  (pc = "run" /\ lastExit = "delay")
    => /\ ~balancingEnabled => balance_correction = Finite(0)
       /\ ~headingControlEnabled => heading_correction = Finite(0)

\* C18: when the line HEADING,90 was the last one dispatched in an iteration,
\* the target heading is 90, heading hold is enabled and the heading integral
\* is 0 at the end of that iteration.
C18_HeadingResetsIntegral ==
  (dispatched # <<>> /\ LastLine = Join(<<kwHEADING, Num(90)>>))
    => /\ target_heading = 90
       /\ headingControlEnabled
       /\ heading_integral = 0

\* C19: a command that enables the balance loop while it is disabled leaves the
\* balance integral and the last pitch error at 0 for the loop's next run.
C19_EnableStartsFromZero ==
  [][(~balancingEnabled /\ balancingEnabled')
       => (balance_integral' = 0 /\ lastPitchError' = 0)]_vars

\* C20: the integral accumulators of the balance and heading loops stay within
\* a bound: the loops clamp them no later than at the largest accumulation the
\* model follows.
C20_IntegralsClamped ==
  /\ Abs(balance_integral) <= MaxBalanceIntegral
  /\ Abs(heading_integral) <= MaxHeadingIntegral

---------------------------------------------------------------------------
(* Claims on the status channel *)

\* C11: every line handed to the dispatcher in an iteration of loop() is
\* answered in that iteration by at least one status line, an acknowledgement
\* or an error.
C11_EveryLineAnswered ==
  pc = "run" => Len(out) >= Len(dispatched)

---------------------------------------------------------------------------
(* Claims on the yaw estimate *)

\* C21: after every yaw update the integrated yaw is above -180 and at most
\* 180 degrees.
C21_YawHalfOpen == yaw > -180 /\ yaw <= 180

(* Claims on the line position *)

\* the adjusted value of one smoothed reading, as calculatePosition() takes it
Adjusted(value, left, center, right) ==
  IF TruncDiv(left + center + right, 3) < 512 THEN 1023 - value ELSE value

\* the three adjusted values lie within UNIFORM_THRESHOLD of each other
UniformSurface(left, center, right) ==
  \A a, b \in {Adjusted(left, left, center, right),
                Adjusted(center, left, center, right),
                Adjusted(right, left, center, right)} :
    a - b < UNIFORM_THRESHOLD

\* the smoothed readings the last active cycle worked on are uniform
UniformNow ==
  UniformSurface(Smoothed(leftValues), Smoothed(centerValues),
                 Smoothed(rightValues))

\* C22: over a uniform surface the reported position is the center setpoint,
\* so the error kept by the control step is zero, not that of a centroid.
C22_UniformIsCentered ==
  UniformNow =>
    /\ calculatePosition(Smoothed(leftValues), Smoothed(centerValues),
                         Smoothed(rightValues)) = 100 * SET_POINT
    /\ previousError = 0

\* five readings of a floor without a line while driving forward
C22_UniformSeen ==
  /\ direction = 1
  /\ Smoothed(leftValues) = 600
  /\ Smoothed(centerValues) = 610
  /\ Smoothed(rightValues) = 590
  /\ previousError = 0

\* C23: in a cycle with an active direction over a uniform surface, the left
\* and the right motor speeds commanded are both 0.
C23_StopsOnUniformSurface ==
  (pc = "run" /\ direction # 0 /\ UniformNow) => motorPwm = Zeros

(* Claims on STOP *)

\* C24: STOP dispatched a second time leaves the wheel outputs, the base speeds
\* and the mode flags as the first STOP left them, and in that state all
\* motors are at zero and both modes are disabled.
C24_StopIdempotent ==
  [][(dispatched = <<kwSTOP>> /\ dispatched' = <<kwSTOP>>)
       => /\ motorPwm' = motorPwm
          /\ motorDir' = motorDir
          /\ baseSpeeds' = baseSpeeds
          /\ balancingEnabled' = balancingEnabled
          /\ headingControlEnabled' = headingControlEnabled
          /\ motorPwm' = Zeros
          /\ ~balancingEnabled'
          /\ ~headingControlEnabled']_vars

(* Claims on the boot *)

\* a step in which the failure of the IMU is written to the status channel
FaultReported == \E i \in DOMAIN out' : out'[i] = msgMpuFailed

\* C25: once the IMU has failed its connection test at boot, no motor is
\* driven at any later time, and the fault is reported on the status channel
\* again and again.
C25_FaultHaltsAndRepeats ==
  /\ [](pc = "halt" => motorPwm = Zeros)
  /\ <>[](pc = "halt") => []<><<FaultReported>>_vars

(* Claims on the drift controller without its IMU *)

\* the status line of a failed attempt of initializeMPU()
Retries == {i \in DOMAIN out : out[i] = "MPU6050 connection failed, retrying..."}

\* C26: initializeMPU() makes at most three attempts and returns; after three
\* failures the main cycle runs on without the IMU: command lines are parsed
\* and applied to the wheels, the yaw is never updated and no drift correction
\* is ever applied.
C26_DegradedWithoutImu ==
  /\ Cardinality(Retries) <= 3
  /\ Cardinality(Retries) = 3 => (pc = "run" /\ ~state.mpuInitialized)
  /\ (pc = "run" /\ ~state.mpuInitialized) =>
       /\ yawAngle = 0
       /\ pidController = [integral |-> 0, lastError |-> 0]
       /\ (dispatched # <<>> /\ parseMotorCommand(LastLine).ok) =>
            \A i \in Motors :
              WheelCommand(i) = constrain(parseMotorCommand(LastLine).speeds[i],
                                          -PWM_MAX, PWM_MAX)

\* without the IMU, a straight-drive line has been applied to the wheels
C26_DrivingWithoutImu ==
  /\ pc = "run"
  /\ ~state.mpuInitialized
  /\ state.straightDriveActive
  /\ dispatched = <<BareLine(100, 100, 100, 100)>>
  /\ motorPwm = <<100, 100, 100, 100>>

(* Claims on the TEST command *)

\* the last line dispatched is a TEST line that parseTestCommand() accepts
TestAccepted ==
  /\ dispatched # <<>>
  /\ strncmp0(LastLine, Append(kwTEST, ","))
  /\ parseTestCommand(Globals, LastLine).ok

\* C27: every accepted TEST command runs the named motor for at most 30000 ms,
\* a longer duration being capped, and when the command completes the named
\* motor is at magnitude 0.
C27_TestBoundedAndStops ==
  /\ \A i \in DOMAIN testRuns : testRuns[i].duration <= 30000
  /\ TestAccepted =>
       /\ testRuns # <<>>
       /\ testRuns[Len(testRuns)].motorIndex = ScanTest(LastLine).motorIndex
       /\ testRuns[Len(testRuns)].duration = Min2(ScanTest(LastLine).duration, 30000)
       /\ motorPwm[ScanTest(LastLine).motorIndex + 1] = 0

\* a TEST of 40000 ms has run for 30000 ms and has ended
C27_LongTestCapped ==
  /\ LastLine = Join(<<kwTEST, Num(0), Num(-300), Num(40000)>>)
  /\ testRuns = <<[motorIndex |-> 0, speed |-> -300, duration |-> 30000]>>
  /\ Said(msgExtCapped)
  /\ motorPwm[1] = 0

(* Claims on the two spellings of a movement command *)

\* C28: the bare line "a,b,c,d" and the line "MOVE,a,b,c,d", with the four
\* values in [-255, 255], are both accepted and give the same base speeds
\* <<a, b, c, d>> (here 100, 100, 100, 100).
C28_BareLineMovesLikeMove ==
  (dispatched # <<>> /\ LastLine \in {BareLine(100, 100, 100, 100),
                                      MoveLine(100, 100, 100, 100)})
    => /\ baseSpeeds = <<100, 100, 100, 100>>
       /\ ~Said(msgInvalid)

(* Claims on the wait for the host *)

\* C29: the wait for the serial link at startup ends within bounded time even
\* if the host never connects; setup() then completes and the main cycle starts.
C29_StartupReachesLoop == <>(pc = "run")

(* Claims on what changes the base speeds *)

\* a line whose first token is MOVE or STOP
MoveOrStop(line) ==
  /\ Tokens(line) # <<>>
  /\ \/ strcasecmp0(Tokens(line)[1], kwMOVE)
     \/ strcasecmp0(Tokens(line)[1], kwSTOP)

\* C30: the base speeds change only in a cycle that dispatches a movement or
\* STOP line; a cycle that completes no line leaves them as they were, whatever
\* the sensors read, the corrections are and the safety stop does.
C30_BaseSpeedsFrame ==
  [][/\ baseSpeeds' # baseSpeeds
          => \E i \in DOMAIN dispatched' : MoveOrStop(dispatched'[i])
     /\ baseMotorSpeeds' # baseMotorSpeeds
          => \E i \in DOMAIN dispatched' : parseMotorCommand(dispatched'[i]).ok
     /\ dispatched' = <<>>
          => (baseSpeeds' = baseSpeeds /\ baseMotorSpeeds' = baseMotorSpeeds)]_vars

\* a tip-over stop in a cycle without a line, the base speeds still set
C30_TripKeepsBaseSpeeds ==
  /\ Said(msgTipOver)
  /\ dispatched = <<>>
  /\ motorPwm = Zeros
  /\ baseSpeeds = <<100, 100, 100, 100>>

(* Claims on the straight-drive mode *)

\* those of the lines dispatched that parseMotorCommand() accepts
Accepted(lines) == {i \in DOMAIN lines : parseMotorCommand(lines[i]).ok}

\* the speeds of the last of them
LastAccepted(lines) ==
  parseMotorCommand(lines[CHOOSE i \in Accepted(lines) :
                            \A j \in Accepted(lines) : j <= i]).speeds

\* C31: straightDriveActive is true exactly if the last accepted movement
\* command had four equal non-zero speeds: an accepted all-zero command stops
\* the motors and clears it, an accepted command with unequal speeds clears
\* it, and an iteration that accepts no command leaves it as it was.
C31_StraightDriveFollowsLastCommand ==
  [][IF Accepted(dispatched') = {}
       THEN state'.straightDriveActive = state.straightDriveActive
       ELSE \E speeds \in {LastAccepted(dispatched')} :
              /\ state'.straightDriveActive
                   = (/\ \A i \in Motors : speeds[i] = speeds[1]
                      /\ speeds[1] # 0)
              /\ (\A i \in Motors : speeds[i] = 0) => motorPwm' = Zeros]_vars

\* straight-drive mode set by 100,100,100,100 and kept through a rejected line
C31_KeptThroughRejectedLine ==
  /\ state.straightDriveActive
  /\ dispatched = << <<"g","o">> >>
  /\ baseMotorSpeeds = <<100, 100, 100, 100>>

(* Claims on the sensor filter *)

\* a step of loop() that took bytes from the link
LoopTookBytes == pc = "run" /\ Len(wire') < Len(wire)

\* C33: every cycle of loop(), also one in which the direction is stopped,
\* overwrites the oldest sample of each sensor's buffer and moves filterIndex
\* on by one, within 0..4.
C33_FilterAdvancesEveryCycle ==
  [][LoopTookBytes =>
       /\ filterIndex' = (filterIndex + 1) % FILTER_SIZE
       /\ \A j \in 1..FILTER_SIZE :
            j # filterIndex + 1 =>
              /\ leftValues'[j] = leftValues[j]
              /\ centerValues'[j] = centerValues[j]
              /\ rightValues'[j] = rightValues[j]]_vars

(* Claims on calculatePosition() *)

\* the readings as calculatePosition() weighs them
AdjustedReadings ==
  [i \in 1..3 |-> Adjusted(readings[i], readings[1], readings[2], readings[3])]

\* C34: for smoothed readings in 0..1023 the position returned lies in
\* [0, 1000], and when the adjusted values sum to 0 it is the setpoint
C34_PositionInRange ==
  linePosition # -1 =>
    /\ linePosition \in 0..(100 * 1000)
    /\ AdjustedReadings[1] + AdjustedReadings[2] + AdjustedReadings[3] = 0
         => linePosition = 100 * SET_POINT

C34_LineFarToOneSide ==
  readings = <<1023, 513, 0>> /\ linePosition \in 0..20000

\* C36: the position of a reading and of its inverse (each value v replaced
\* by 1023 - v) are equal
C36_SameForInvertedTrack ==
  linePosition # -1 =>
    linePosition = calculatePosition(1023 - readings[1], 1023 - readings[2],
                                     1023 - readings[3])

(* Claims on the command buffer *)

\* C37: whatever bytes arrive (backspace and delete, empty lines and lines
\* longer than the buffer included), 0 <= cmdIndex <= CMD_BUFFER_SIZE - 1
C37_CmdIndexInBounds == Len(cmdBuffer) \in 0..(CMD_BUFFER_SIZE - 1)

C37_BufferFull == Len(cmdBuffer) = CMD_BUFFER_SIZE - 1 /\ pc = "run"

(* Claims on the channels a TEST command touches *)

\* C38: a TEST command changes the channel of the motor it names and no other:
\* the other three keep direction and magnitude; a TEST line whose index is
\* outside 0..3, or that does not parse, changes no channel
C38_TestTouchesOneChannel ==
  [][(Len(dispatched') = 1 /\ strncmp0(dispatched'[1], Append(kwTEST, ","))) =>
       \E r \in {parseTestCommand(Globals, dispatched'[1])} :
         \A i \in Motors :
           \/ r.ok /\ i = r.t.motorIndex + 1
           \/ motorDir'[i] = motorDir[i] /\ motorPwm'[i] = motorPwm[i]]_vars

C38_OthersKeptRunning ==
  /\ dispatched = << Join(<<kwTEST, Num(2), Num(200), Num(500)>>) >>
  /\ motorPwm = <<100, 100, 0, 50>>
  /\ motorDir = <<TRUE, FALSE, TRUE, FALSE>>

(* Claims on the time step *)

\* the yaw after a rate of m.yawRate deg/s has been integrated over dt ms
YawOver(y, m, dt) ==
  LET y1 == y + TruncDiv(m.yawRate * dt, 1000)
      y2 == IF y1 > 180 THEN y1 - 360 ELSE y1
  IN IF y2 < -180 THEN y2 + 360 ELSE y2

\* C35: each cycle measures one dt, and the yaw integration uses it: the yaw
\* after an iteration of loop() is the yaw before it plus the yaw rate times
\* the time measured since the iteration before
C35_YawIntegratedOverMeasuredDt ==
  [][pc = "run" =>
       \E m \in Spinning : \E dt \in Elapsed(lastExit) : yaw' = YawOver(yaw, m, dt)]_vars

(* Claims on the dashboard *)

\* the events that ask for a stop: the stop button, the spacebar, and the
\* release of a control button other than stop
StopRequests ==
  {<<"mousedown", "stop">>, <<"keydown", " ">>}
    \cup {<<"mouseup", action>> : action \in Buttons \ {"stop"}}

C40_SilentUntilConnectedAgain ==
  \A i \in DOMAIN handled.emitted :
    handled.emitted[i][1] # "stop" => handled.confirmed

(* Claims on the in-place rotation *)

\* the speed a wheel is driven at, negative for reverse
SignedSpeed(dir, pwm, i) == IF dir[i] THEN pwm[i] ELSE -pwm[i]

\* C32: in every active cycle over a line, with |error| > 300 the left and the
\* right speed after clamping are exact negatives of each other, and with
\* |error| <= 300 they are direction*baseSpeed + correction and
\* direction*baseSpeed - correction, each clamped to [-255, 255]
C32_RotatesOrSteers ==
  [][(/\ pc = "run" /\ filterIndex' # filterIndex /\ direction' # 0
      /\ ~BasicUniform(BasicAvg(leftValues'), BasicAvg(centerValues'),
                       BasicAvg(rightValues'))) =>
       LET error == previousError'
           correction == TruncDiv(BasicKp * error + BasicKi * integral'
                                    + BasicKd * (error - previousError), 100)
           c == TruncDiv(correction, 100)
           leftSpeed == SignedSpeed(motorDir', motorPwm', 1)
           rightSpeed == SignedSpeed(motorDir', motorPwm', 2)
       IN IF Abs(error) > 100 * SharpTurnError
            THEN leftSpeed = -rightSpeed
            ELSE /\ leftSpeed = constrain(direction' * baseSpeed + c, -PWM_MAX, PWM_MAX)
                 /\ rightSpeed = constrain(direction' * baseSpeed - c, -PWM_MAX, PWM_MAX)]_vars

Spec == SpecAdvanced

=============================================================================
